---- MODULE Spec2Model ----
(***************************************************************************)
(* A model of the decode-and-derive pipeline of the Sky height tool        *)
(* (src/App.tsx: decodeAndCalculate, lines 787-870).                       *)
(*                                                                         *)
(* Text is a sequence of one-character strings.  JavaScript numbers are    *)
(* IEEE-754 binary64 values: every arithmetic operator of the source is    *)
(* modelled with its rounding (round to nearest, ties to even), on         *)
(* mantissas kept as little-endian sequences of 14-bit limbs because the   *)
(* model checker's integers are 32 bits wide.                              *)
(***************************************************************************)
EXTENDS Integers, Sequences, FiniteSets, TLC

(***************************************************************************)
(* Natural numbers of any size: little-endian limbs, no leading zero limb. *)
(***************************************************************************)
LimbBits == 14
Base == 2^LimbBits

Max(a, b) == IF a >= b THEN a ELSE b
Min(a, b) == IF a <= b THEN a ELSE b

RECURSIVE BigTrim(_)
BigTrim(a) ==
  IF a = <<>> THEN a
  ELSE IF a[Len(a)] = 0 THEN BigTrim(SubSeq(a, 1, Len(a) - 1)) ELSE a

RECURSIVE BigFromInt(_)
BigFromInt(n) == IF n = 0 THEN <<>> ELSE <<n % Base>> \o BigFromInt(n \div Base)

RECURSIVE BigAddC(_, _, _)
BigAddC(a, b, c) ==
  IF a = <<>> /\ b = <<>> THEN (IF c = 0 THEN <<>> ELSE <<c>>)
  ELSE LET x == IF a = <<>> THEN 0 ELSE a[1]
           y == IF b = <<>> THEN 0 ELSE b[1]
           s == x + y + c
       IN  <<s % Base>> \o BigAddC(IF a = <<>> THEN a ELSE Tail(a),
                                   IF b = <<>> THEN b ELSE Tail(b),
                                   s \div Base)

BigAdd(a, b) == BigAddC(a, b, 0)

\* a - b - c for a >= b + c, before trimming
RECURSIVE BigSubB(_, _, _)
BigSubB(a, b, c) ==
  IF a = <<>> THEN <<>>
  ELSE LET y == IF b = <<>> THEN 0 ELSE b[1]
           d == a[1] - y - c
       IN  <<(d + Base) % Base>> \o BigSubB(Tail(a),
                                            IF b = <<>> THEN b ELSE Tail(b),
                                            IF d < 0 THEN 1 ELSE 0)

BigSub(a, b) == BigTrim(BigSubB(a, b, 0))

\* -1, 0, 1 as a < b, a = b, a > b
RECURSIVE BigCmpFrom(_, _, _)
BigCmpFrom(a, b, i) ==
  IF i = 0 THEN 0
  ELSE IF a[i] < b[i] THEN -1
  ELSE IF a[i] > b[i] THEN 1
  ELSE BigCmpFrom(a, b, i - 1)

BigCmp(a, b) ==
  IF Len(a) < Len(b) THEN -1
  ELSE IF Len(a) > Len(b) THEN 1
  ELSE BigCmpFrom(a, b, Len(a))

\* a * k + c for a limb-sized k
RECURSIVE BigMulSmallC(_, _, _)
BigMulSmallC(a, k, c) ==
  IF a = <<>> THEN BigFromInt(c)
  ELSE LET s == a[1] * k + c
       IN  <<s % Base>> \o BigMulSmallC(Tail(a), k, s \div Base)

BigMulSmall(a, k) == IF k = 0 THEN <<>> ELSE BigMulSmallC(a, k, 0)

RECURSIVE BigMul(_, _)
BigMul(a, b) ==
  IF a = <<>> \/ b = <<>> THEN <<>>
  ELSE LET rest == BigMul(a, Tail(b))
       IN  BigAdd(BigMulSmall(a, b[1]),
                  IF rest = <<>> THEN rest ELSE <<0>> \o rest)

RECURSIVE IntBitLen(_)
IntBitLen(n) == IF n = 0 THEN 0 ELSE 1 + IntBitLen(n \div 2)

BigBitLen(a) ==
  IF a = <<>> THEN 0 ELSE LimbBits * (Len(a) - 1) + IntBitLen(a[Len(a)])

\* bit i (bit 0 is the least significant)
BigBit(a, i) ==
  LET l == i \div LimbBits + 1
  IN  IF l > Len(a) THEN 0 ELSE (a[l] \div 2^(i % LimbBits)) % 2

BigIsOdd(a) == a # <<>> /\ a[1] % 2 = 1

\* a * 2^n
BigShl(a, n) ==
  IF a = <<>> THEN a
  ELSE [i \in 1..(n \div LimbBits) |-> 0] \o BigMulSmall(a, 2^(n % LimbBits))

\* floor(a / 2^n)
BigShr(a, n) ==
  LET drop == n \div LimbBits
      r    == n % LimbBits
      rest == IF drop >= Len(a) THEN <<>> ELSE SubSeq(a, drop + 1, Len(a))
  IN  BigTrim([i \in 1..Len(rest) |->
                 rest[i] \div 2^r
                 + (IF i < Len(rest) THEN (rest[i + 1] % 2^r) * 2^(LimbBits - r)
                    ELSE 0)])

\* whether a has a 1 among its n lowest bits
BigLowNonzero(a, n) ==
  \E i \in 0..(n - 1) : BigBit(a, i) = 1

\* the largest q in lo..(hi - 1) with d * q <= r, given d * lo <= r < d * hi
RECURSIVE QuotDigit(_, _, _, _)
QuotDigit(r, d, lo, hi) ==
  IF hi - lo <= 1 THEN lo
  ELSE LET mid == (lo + hi) \div 2
       IN  IF BigCmp(BigMulSmall(d, mid), r) <= 0
           THEN QuotDigit(r, d, mid, hi)
           ELSE QuotDigit(r, d, lo, mid)

\* <<quotient, remainder>> by d # 0 of the number made of limbs i.. of a:
\* long division, one limb of a at a time
RECURSIVE BigDivModFrom(_, _, _)
BigDivModFrom(a, d, i) ==
  IF i > Len(a) THEN << <<>>, <<>> >>
  ELSE LET prev == BigDivModFrom(a, d, i + 1)
           r1   == BigTrim(<<a[i]>> \o prev[2])
           qd   == QuotDigit(r1, d, 0, Base)
       IN  <<BigTrim(<<qd>> \o prev[1]), BigSub(r1, BigMulSmall(d, qd))>>

BigDivMod(a, d) == BigDivModFrom(a, d, 1)

RECURSIVE BigPow10(_)
BigPow10(n) == IF n = 0 THEN <<1>> ELSE BigMulSmall(BigPow10(n - 1), 10)

(***************************************************************************)
(* JavaScript numbers.  A finite binary64 value is (-1)^neg * m * 2^e with *)
(* 2^52 <= m < 2^53, or m < 2^52 and e = MinExp (subnormal), or m = 0      *)
(* (<<>>, e = 0).  The texts the model feeds the pipeline keep every       *)
(* intermediate value finite, so infinities and NaN are not represented.   *)
(***************************************************************************)
MantBits == 53
MinExp == -1074

\* the binary64 nearest to (-1)^neg * (M + f) * 2^e, where 0 <= f < 1 and
\* f > 0 exactly when sticky; ties go to the even mantissa
RoundToDouble(neg, M, e, sticky) ==
  IF M = <<>> THEN [neg |-> neg, m |-> <<>>, e |-> 0]
  ELSE LET L  == BigBitLen(M)
           et == Max(e + L - MantBits, MinExp)
           k  == et - e
       IN  IF k <= 0 THEN [neg |-> neg, m |-> BigShl(M, -k), e |-> et]
           ELSE LET q  == BigShr(M, k)
                    up == /\ BigBit(M, k - 1) = 1
                          /\ (sticky \/ BigLowNonzero(M, k - 1) \/ BigIsOdd(q))
                    m1 == IF up THEN BigAddC(q, <<>>, 1) ELSE q
                IN  IF m1 = <<>> THEN [neg |-> neg, m |-> <<>>, e |-> 0]
                    ELSE IF BigBitLen(m1) > MantBits
                         THEN [neg |-> neg, m |-> BigShr(m1, 1), e |-> et + 1]
                         ELSE [neg |-> neg, m |-> m1, e |-> et]

FIsZero(a) == a.m = <<>>

FNeg(a) == [a EXCEPT !.neg = ~a.neg]

\* a + b
FAdd(a, b) ==
  IF FIsZero(a) /\ FIsZero(b) THEN [neg |-> a.neg /\ b.neg, m |-> <<>>, e |-> 0]
  ELSE IF FIsZero(a) THEN b
  ELSE IF FIsZero(b) THEN a
  ELSE LET e0 == Min(a.e, b.e)
           A  == BigShl(a.m, a.e - e0)
           B  == BigShl(b.m, b.e - e0)
           c  == BigCmp(A, B)
       IN  IF a.neg = b.neg THEN RoundToDouble(a.neg, BigAdd(A, B), e0, FALSE)
           ELSE IF c = 0 THEN [neg |-> FALSE, m |-> <<>>, e |-> 0]
           ELSE IF c > 0 THEN RoundToDouble(a.neg, BigSub(A, B), e0, FALSE)
           ELSE RoundToDouble(b.neg, BigSub(B, A), e0, FALSE)

\* a - b
FSub(a, b) == FAdd(a, FNeg(b))

\* a * b
FMul(a, b) == RoundToDouble(a.neg # b.neg, BigMul(a.m, b.m), a.e + b.e, FALSE)

\* a / b for b # 0
FDiv(a, b) ==
  IF FIsZero(a) THEN [neg |-> a.neg # b.neg, m |-> <<>>, e |-> 0]
  ELSE LET p  == Max(0, MantBits + 2 + BigBitLen(b.m) - BigBitLen(a.m))
           qr == BigDivMod(BigShl(a.m, p), b.m)
       IN  RoundToDouble(a.neg # b.neg, qr[1], a.e - b.e - p, qr[2] # <<>>)

\* -1, 0, 1 as a < b, a = b, a > b (the two zeros are equal)
FCmp(a, b) ==
  IF FIsZero(a) /\ FIsZero(b) THEN 0
  ELSE IF FIsZero(a) THEN (IF b.neg THEN 1 ELSE -1)
  ELSE IF FIsZero(b) THEN (IF a.neg THEN -1 ELSE 1)
  ELSE IF a.neg # b.neg THEN (IF a.neg THEN -1 ELSE 1)
  ELSE LET e0  == Min(a.e, b.e)
           mag == IF a.e = b.e THEN BigCmp(a.m, b.m)
                  ELSE IF BigBitLen(a.m) + a.e # BigBitLen(b.m) + b.e
                       THEN (IF BigBitLen(a.m) + a.e < BigBitLen(b.m) + b.e
                             THEN -1 ELSE 1)
                       ELSE BigCmp(BigShl(a.m, a.e - e0), BigShl(b.m, b.e - e0))
       IN  IF a.neg THEN -mag ELSE mag

FEq(a, b) == FCmp(a, b) = 0
FLt(a, b) == FCmp(a, b) < 0
FLe(a, b) == FCmp(a, b) <= 0

\* the binary64 nearest to (-1)^neg * N * 10^k: how a decimal literal or a
\* decimal string becomes a number
DecToDouble(neg, N, k) ==
  IF N = <<>> THEN [neg |-> neg, m |-> <<>>, e |-> 0]
  ELSE IF k >= 0 THEN RoundToDouble(neg, BigMul(N, BigPow10(k)), 0, FALSE)
  ELSE LET D  == BigPow10(-k)
           p  == Max(0, MantBits + 2 + BigBitLen(D) - BigBitLen(N))
           qr == BigDivMod(BigShl(N, p), D)
       IN  RoundToDouble(neg, qr[1], -p, qr[2] # <<>>)


(***************************************************************************)
(* Text: a sequence of one-character strings.                              *)
(***************************************************************************)
Chars(str) == [i \in 1..Len(str) |-> SubSeq(str, i, i)]

SetMin(S) == CHOOSE x \in S : \A y \in S : x <= y

Digits == {"0", "1", "2", "3", "4", "5", "6", "7", "8", "9"}

DigitChars == Chars("0123456789")

DigitVal(c) == (CHOOSE i \in 1..10 : DigitChars[i] = c) - 1

\* code units 32..95 and 97..126, in order (a string of the modelling
\* language cannot hold code unit 96)
AsciiLow == Chars(" !\"#$%&'()*+,-./0123456789:;<=>?@ABCDEFGHIJKLMNOPQRSTUVWXYZ[\\]^_")

AsciiHigh == Chars("abcdefghijklmnopqrstuvwxyz{|}~")

\* the character of a byte; a byte with no printable form keeps its number
Chr(b) ==
  IF b >= 32 /\ b <= 95 THEN AsciiLow[b - 31]
  ELSE IF b >= 97 /\ b <= 126 THEN AsciiHigh[b - 96]
  ELSE IF b = 9 THEN "\t"
  ELSE IF b = 10 THEN "\n"
  ELSE IF b = 12 THEN "\f"
  ELSE IF b = 13 THEN "\r"
  ELSE "\\x" \o ToString(b)

\* the byte of a character of the texts the model builds
Ord(c) ==
  IF c = "\t" THEN 9
  ELSE IF c = "\n" THEN 10
  ELSE IF c = "\f" THEN 12
  ELSE IF c = "\r" THEN 13
  ELSE IF \E i \in 1..Len(AsciiLow) : AsciiLow[i] = c
       THEN 31 + (CHOOSE i \in 1..Len(AsciiLow) : AsciiLow[i] = c)
       ELSE 96 + (CHOOSE i \in 1..Len(AsciiHigh) : AsciiHigh[i] = c)

\* the lower-case form of an upper-case ASCII letter, any other character
\* unchanged: the case folding of a /.../i pattern over ASCII letters
LowerOf(c) ==
  IF \E i \in 34..59 : AsciiLow[i] = c
  THEN AsciiHigh[(CHOOSE i \in 34..59 : AsciiLow[i] = c) - 33]
  ELSE c

\* String.prototype.indexOf: the first 0-based index of pat in s, or -1
IndexOf(s, pat) ==
  LET hits == {i \in 0..(Len(s) - Len(pat)) : SubSeq(s, i + 1, i + Len(pat)) = pat}
  IN  IF hits = {} THEN -1 ELSE SetMin(hits)

\* String.prototype.substring(start)
Substring(s, start) == SubSeq(s, start + 1, Len(s))

\* the index of a case-insensitive literal's first match (/lit/i), or -1
IndexOfIgnoreCase(s, lit) ==
  LET hits == {i \in 0..(Len(s) - Len(lit)) :
                 \A k \in 1..Len(lit) : LowerOf(s[i + k]) = lit[k]}
  IN  IF hits = {} THEN -1 ELSE SetMin(hits)

\* the 1-based position after the run of characters of set S that starts at
\* 1-based position j of s (j itself when s[j] is not in S)
RunEnd(s, j, S) ==
  IF j > Len(s) THEN j
  ELSE SetMin({k \in j..(Len(s) + 1) : k > Len(s) \/ s[k] \notin S})

(***************************************************************************)
(* Base 64.                                                                *)
(***************************************************************************)
B64Alphabet ==
  Chars("ABCDEFGHIJKLMNOPQRSTUVWXYZabcdefghijklmnopqrstuvwxyz0123456789+/")

B64Chars == {B64Alphabet[i] : i \in 1..64}

B64Val(c) == (CHOOSE i \in 1..64 : B64Alphabet[i] = c) - 1

AsciiWhitespace == {"\t", "\n", "\f", "\r", " "}

\* window.atob: the forgiving-base64 decode of the HTML standard.  ok is
\* FALSE where atob throws InvalidCharacterError.
Atob(data) ==
  LET s1 == SelectSeq(data, LAMBDA c : c \notin AsciiWhitespace)
      n1 == Len(s1)
      s2 == IF n1 % 4 = 0 /\ n1 > 0 /\ s1[n1] = "="
            THEN (IF s1[n1 - 1] = "=" THEN SubSeq(s1, 1, n1 - 2)
                  ELSE SubSeq(s1, 1, n1 - 1))
            ELSE s1
      n  == Len(s2)
      v(i) == IF i <= n THEN B64Val(s2[i]) ELSE 0
      nbytes == (n \div 4) * 3 + (IF n % 4 = 0 THEN 0 ELSE (n % 4) - 1)
      byte(j) == LET g == 4 * (j \div 3)
                 IN  CASE j % 3 = 0 -> v(g + 1) * 4 + v(g + 2) \div 16
                       [] j % 3 = 1 -> (v(g + 2) % 16) * 16 + v(g + 3) \div 4
                       [] j % 3 = 2 -> (v(g + 3) % 4) * 64 + v(g + 4)
  IN  IF n % 4 = 1 \/ \E i \in 1..n : s2[i] \notin B64Chars
      THEN [ok |-> FALSE, text |-> <<>>]
      ELSE [ok |-> TRUE, text |-> [j \in 1..nbytes |-> Chr(byte(j - 1))]]

(***************************************************************************)
(* The stages of decodeAndCalculate.                                       *)
(***************************************************************************)
startMarker == Chars("ImJvZHki")

\* rawData.indexOf(startMarker)
\* the last occurrence of the anchor instead of the first
lastIndexOf(raw) ==
  LET hits == {i \in 0..(Len(raw) - Len(startMarker)) :
                 SubSeq(raw, i + 1, i + Len(startMarker)) = startMarker}
  IN  IF hits = {} THEN -1 ELSE CHOOSE i \in hits : \A j \in hits : j <= i

startIndexOf(raw) == IndexOf(raw, startMarker)

\* .replace(/-/g, '+').replace(/_/g, '/'), then '='.repeat(4 - length % 4)
\* when length % 4 is not 0
\* the normalizer without the padding
NormalizeUnpadded(block) ==
  [i \in 1..Len(block) |->
     IF block[i] = "-" THEN "+" ELSE IF block[i] = "_" THEN "/" ELSE block[i]]

Normalize(block) ==
  LET std == [i \in 1..Len(block) |->
                IF block[i] = "-" THEN "+"
                ELSE IF block[i] = "_" THEN "/" ELSE block[i]]
      padding == Len(std) % 4
  IN  IF padding # 0 THEN std \o [i \in 1..(4 - padding) |-> "="] ELSE std

RECURSIVE DigitsToBig(_)
DigitsToBig(ds) ==
  IF ds = <<>> THEN <<>>
  ELSE BigMulSmallC(DigitsToBig(SubSeq(ds, 1, Len(ds) - 1)), 10,
                    DigitVal(ds[Len(ds)]))

\* parseFloat of a token -?digits, -?digits., -?digits.digits or -?.digits
ParseFloat(t) ==
  LET neg  == Len(t) > 0 /\ t[1] = "-"
      j    == IF neg THEN 2 ELSE 1
      ie   == RunEnd(t, j, Digits)
      dot  == ie <= Len(t) /\ t[ie] = "."
      fe   == IF dot THEN RunEnd(t, ie + 1, Digits) ELSE ie
      frac == IF dot THEN SubSeq(t, ie + 1, fe - 1) ELSE <<>>
  IN  DecToDouble(neg, DigitsToBig(SubSeq(t, j, ie - 1) \o frac), -Len(frac))

\* parseInt of a run of digits, as a number
ParseInt(ds) == RoundToDouble(FALSE, DigitsToBig(ds), 0, FALSE)

\* parseInt of [-+]?digits for an exponent (short enough for an integer of
\* the model checker)
RECURSIVE DigitsToInt(_)
DigitsToInt(ds) ==
  IF ds = <<>> THEN 0
  ELSE 10 * DigitsToInt(SubSeq(ds, 1, Len(ds) - 1)) + DigitVal(ds[Len(ds)])

\* the exponent read without its sign
ParseExponentUnsigned(t) ==
  IF t[1] \in {"-", "+"} THEN DigitsToInt(Tail(t)) ELSE DigitsToInt(t)

ParseExponent(t) ==
  IF t[1] = "-" THEN -DigitsToInt(Tail(t))
  ELSE IF t[1] = "+" THEN DigitsToInt(Tail(t))
  ELSE DigitsToInt(t)

\* Math.pow(10, n), taken as the binary64 nearest to 10^n
MathPow10(n) == DecToDouble(FALSE, <<1>>, n)

\* where a match of -?\d*\.\d+ starting at 1-based i ends (exclusive); 0: none
DotNumberEnd(s, i) ==
  LET j  == IF i <= Len(s) /\ s[i] = "-" THEN i + 1 ELSE i
      d1 == RunEnd(s, j, Digits)
      d2 == RunEnd(s, d1 + 1, Digits)
  IN  IF d1 <= Len(s) /\ s[d1] = "." /\ d2 > d1 + 1 THEN d2 ELSE 0

\* where a match of -?\d+\.?\d* starting at i ends (exclusive); 0: none
IntNumberEnd(s, i) ==
  LET j  == IF i <= Len(s) /\ s[i] = "-" THEN i + 1 ELSE i
      d1 == RunEnd(s, j, Digits)
  IN  IF d1 = j THEN 0
      ELSE IF d1 <= Len(s) /\ s[d1] = "." THEN RunEnd(s, d1 + 1, Digits)
      ELSE d1

\* heightSearchArea.match(/(-?\d*\.\d+|-?\d+\.?\d*)/): the leftmost match,
\* the first alternative tried first; <<>> is no match
heightMatchOf(area) ==
  LET endAt(i) == IF DotNumberEnd(area, i) # 0 THEN DotNumberEnd(area, i)
                  ELSE IntNumberEnd(area, i)
      starts   == {i \in 1..Len(area) : endAt(i) # 0}
  IN  IF starts = {} THEN <<>>
      ELSE SubSeq(area, SetMin(starts), endAt(SetMin(starts)) - 1)

Separators == {"\"", ":"}

\* a match of [":]*(-?\d+\.?\d*)[eE]([-+]?\d+) starting at i
SciAt(s, i) ==
  LET j  == RunEnd(s, i, Separators)
      me == IntNumberEnd(s, j)
      x0 == me + 1
      x1 == IF x0 <= Len(s) /\ s[x0] \in {"-", "+"} THEN x0 + 1 ELSE x0
      xe == RunEnd(s, x1, Digits)
      ok == me # 0 /\ me <= Len(s) /\ s[me] \in {"e", "E"} /\ xe > x1
  IN  [ok |-> ok,
       mantissa |-> IF ok THEN SubSeq(s, j, me - 1) ELSE <<>>,
       exponent |-> IF ok THEN SubSeq(s, x0, xe - 1) ELSE <<>>]

\* scaleSearchArea.match(/[":]*(-?\d+\.?\d*)[eE]([-+]?\d+)/)
scientificMatchOf(area) ==
  LET starts == {i \in 1..Len(area) : SciAt(area, i).ok}
  IN  IF starts = {} THEN [ok |-> FALSE, mantissa |-> <<>>, exponent |-> <<>>]
      ELSE SciAt(area, SetMin(starts))

\* scaleSearchArea.match(/[":]*(-?\d*\.\d+)/): group 1, or <<>>
standardFloatMatchOf(area) ==
  LET endAt(i) == DotNumberEnd(area, RunEnd(area, i, Separators))
      starts   == {i \in 1..Len(area) : endAt(i) # 0}
  IN  IF starts = {} THEN <<>>
      ELSE SubSeq(area, RunEnd(area, SetMin(starts), Separators),
                  endAt(SetMin(starts)) - 1)

\* the characters . does not match
LineTerminators == {"\n", "\r"}

WindowLen == 30
MaxIntDigits == 10

\* searchWindow.match(/^.*?(\d{1,10})/): group 1, or <<>>
integerMatchOf(searchWindow) ==
  LET ds == {p \in 1..Len(searchWindow) : searchWindow[p] \in Digits}
  IN  IF ds = {} THEN <<>>
      ELSE LET p == SetMin(ds)
           IN  IF \E q \in 1..(p - 1) : searchWindow[q] \in LineTerminators
               THEN <<>>
               ELSE SubSeq(searchWindow, p,
                           Min(RunEnd(searchWindow, p, Digits), p + MaxIntDigits) - 1)

\* the literals of the formula
Num76 == DecToDouble(FALSE, BigFromInt(76), -1)
Num83 == DecToDouble(FALSE, BigFromInt(83), -1)
Num3 == DecToDouble(FALSE, BigFromInt(3), 0)
Num2 == DecToDouble(FALSE, BigFromInt(2), 0)
NumE9 == DecToDouble(FALSE, BigFromInt(1), 9)
NumZero == DecToDouble(FALSE, <<>>, 0)

\* 7.6 - (8.3 * scale) - (3 * height)
\* the formula with the height term added instead of subtracted
HeightFormulaAdded(sc, h) == FAdd(FSub(Num76, FMul(Num83, sc)), FMul(Num3, h))

HeightFormula(sc, h) == FSub(FSub(Num76, FMul(Num83, sc)), FMul(Num3, h))

\* the current height with the decoded height clamped to [-2.0, 2.0]
currentHeightClamped(sc, h) ==
  HeightFormula(sc, IF FLt(Num2, h) THEN Num2
                    ELSE IF FLt(h, FNeg(Num2)) THEN FNeg(Num2) ELSE h)

currentHeightOf(sc, h) == HeightFormula(sc, h)
shortestHeightOf(sc) == HeightFormula(sc, FNeg(Num2))
\* the tallest height taken at the lower end of the height range
tallestHeightAtLow(sc) == HeightFormula(sc, FNeg(Num2))

tallestHeightOf(sc) == HeightFormula(sc, Num2)

\* translations['status_error_general']: one message for every failure
GeneralError == [error |-> "status_error_general"]

\* the record decodeAndCalculate returns on success
ResultRecord(cur, tall, short, sc, h, t) ==
  [current |-> cur, tallest |-> tall, shortest |-> short, scale |-> sc,
   timestamp |-> t, note |-> "",
   json |-> [height_raw |-> h, scale_raw |-> sc]]

heightKey == Chars("eigh")
scaleKey == Chars("scale")

\* the height searched in the whole plaintext instead of after the marker
heightSearchAreaWhole(text) == text

\* the height stage: what follows the first /eigh/i match, and its number
heightSearchAreaOf(text) ==
  Substring(text, IndexOfIgnoreCase(text, heightKey) + Len(heightKey))

\* the scale stage: what follows the first /scale/i match
scaleSearchAreaOf(text) ==
  Substring(text, IndexOfIgnoreCase(text, scaleKey) + Len(scaleKey))

\* the tiers tried in another order: plain decimal before scientific
scaleOfDecimalFirst(area) ==
  LET sci == scientificMatchOf(area)
      std == standardFloatMatchOf(area)
      int == integerMatchOf(SubSeq(area, 1, Min(WindowLen, Len(area))))
  IN  IF std # <<>> THEN [tier |-> 2, value |-> ParseFloat(std)]
      ELSE IF sci.ok
      THEN [tier |-> 1,
            value |-> FMul(ParseFloat(sci.mantissa),
                           MathPow10(ParseExponent(sci.exponent)))]
      ELSE IF int # <<>> THEN [tier |-> 3, value |-> FDiv(ParseInt(int), NumE9)]
      ELSE [tier |-> 0, value |-> NumZero]

\* the three tiers of the scale stage, in the order the code tries them;
\* tier 0: none matched
scaleOf(area) ==
  LET sci == scientificMatchOf(area)
      std == standardFloatMatchOf(area)
      int == integerMatchOf(SubSeq(area, 1, Min(WindowLen, Len(area))))
  IN  IF sci.ok
      THEN [tier |-> 1,
            value |-> FMul(ParseFloat(sci.mantissa),
                           MathPow10(ParseExponent(sci.exponent)))]
      ELSE IF std # <<>> THEN [tier |-> 2, value |-> ParseFloat(std)]
      ELSE IF int # <<>> THEN [tier |-> 3, value |-> FDiv(ParseInt(int), NumE9)]
      ELSE [tier |-> 0, value |-> NumZero]

\* new Date().getTime(): the clock values the model draws from
MaxClock == 2
Clock == 1..MaxClock

\* decodeAndCalculate as one function of its input and the clock
decodeAndCalculate(raw, t) ==
  IF startIndexOf(raw) = -1 THEN GeneralError
  ELSE LET dec == Atob(Normalize(Substring(raw, startIndexOf(raw))))
       IN  IF ~dec.ok THEN GeneralError
           ELSE IF IndexOfIgnoreCase(dec.text, heightKey) = -1 THEN GeneralError
           ELSE IF heightMatchOf(heightSearchAreaOf(dec.text)) = <<>> THEN GeneralError
           ELSE IF IndexOfIgnoreCase(dec.text, scaleKey) = -1 THEN GeneralError
           ELSE LET h  == ParseFloat(heightMatchOf(heightSearchAreaOf(dec.text)))
                    sc == scaleOf(scaleSearchAreaOf(dec.text))
                IN  IF sc.tier = 0 THEN GeneralError
                    ELSE ResultRecord(currentHeightOf(sc.value, h),
                                      tallestHeightOf(sc.value),
                                      shortestHeightOf(sc.value),
                                      sc.value, h, t)

(***************************************************************************)
(* The inputs: what the external source hands the pipeline.                *)
(***************************************************************************)
\* the encoder of the source of the payloads: standard base 64 with padding
Btoa(text) ==
  LET n == Len(text)
      b(j) == IF j < n THEN Ord(text[j + 1]) ELSE 0
      ch(k) == LET g == 3 * (k \div 4)
               IN  CASE k % 4 = 0 -> B64Alphabet[(b(g) \div 4) + 1]
                     [] k % 4 = 1 -> B64Alphabet[((b(g) % 4) * 16) + (b(g + 1) \div 16) + 1]
                     [] k % 4 = 2 -> IF g + 1 >= n THEN "="
                                     ELSE B64Alphabet[((b(g + 1) % 16) * 4) + (b(g + 2) \div 64) + 1]
                     [] k % 4 = 3 -> IF g + 2 >= n THEN "="
                                     ELSE B64Alphabet[(b(g + 2) % 64) + 1]
  IN  [k \in 1..(4 * ((n + 2) \div 3)) |-> ch(k - 1)]

\* the URL-safe form: - for +, _ for /, padding dropped
UrlSafe(block) ==
  LET body == SelectSeq(block, LAMBDA c : c # "=")
  IN  [i \in 1..Len(body) |->
         IF body[i] = "+" THEN "-" ELSE IF body[i] = "/" THEN "_" ELSE body[i]]

Spaces(n) == [i \in 1..n |-> " "]

\* fragments of plaintext that carry (or lack) the height field
HeightFrags ==
  { Chars("height: 0.1234,"),
    Chars("\"height\":-1.5,"),
    Chars("\"HEIGHT\":2,"),
    Chars("\"Height\":.5,"),
    Chars("\"height\":-2.5,"),
    Chars("\"height\":5.,"),
    Chars("\"height\":\"?\","),
    Chars("\"tall\":1,"),
    Chars("\"weight\":7,\"height\":1,") }

\* fragments of plaintext that carry (or lack) the scale field
ScaleFrags ==
  { Chars("\"scale\":1.5e-1,"),
    Chars("\"scale\":0.5,"),
    Chars("\"scale\":0.45,"),
    Chars("\"scale\":1.5,"),
    Chars("\"scale\":123456789,"),
    Chars("\"scale\":0.25,\"s2\":3e2,"),
    Chars("\"scale\":2E+1,\"d\":0.75,"),
    Chars("\"scale\":-1.009,"),
    Chars("\"scale\":1e17,"),
    Chars("\"scale\":\"~\","),
    Chars("\"size\":1,"),
    Chars("\"Scale\":\n42,"),
    Chars("\"scale\":") \o Spaces(26) \o Chars("12345,"),
    Chars("\"scale\":") \o Spaces(30) \o Chars("9,"),
    Chars("\"scale\":12345678901234,"),
    Chars("\"SCALE\":-5,") }

\* the decoded payloads: the two fields in either order after "body"
\* a payload with a third field, whose encoding uses both + and /
NamedPlain == Chars("\"body\":{\"name\":\"~~~???\", \"height\":1,\"scale\":0.5,}")

Plaintexts ==
  { Chars("\"body\":{") \o a \o b \o Chars("}") :
      <<a, b>> \in (HeightFrags \X ScaleFrags) \cup (ScaleFrags \X HeightFrags) }
    \cup {NamedPlain}

UrlPrefix == Chars("https://x.y/?o=") \o Btoa(Chars("[1,"))

\* well-formed inputs: the bare standard block, and the URL-safe block
\* inside a link
WellFormedInputs ==
  {Btoa(p) : p \in Plaintexts} \cup {UrlPrefix \o UrlSafe(Btoa(p)) : p \in Plaintexts}

SamplePlain == Chars("\"body\":{height: 0.1234,\"scale\":1.5e-1,}")

\* inputs with no anchor
NoAnchorInputs ==
  { <<>>, Chars("hello"), Chars("ImJvZHk"), Chars("imjvzhki"),
    Tail(Btoa(SamplePlain)),
    Btoa(Chars("{\"height\":1,\"scale\":0.5}")),
    Btoa(Chars("{") \o SamplePlain) }

\* inputs whose block cannot be decoded
UndecodableInputs ==
  { Btoa(SamplePlain) \o Chars("&v=1"),
    Btoa(SamplePlain) \o Chars("A"),
    Btoa(SamplePlain) \o Chars("\n"),
    UrlSafe(Btoa(SamplePlain)) \o Chars("=="),
    Chars("ImJvZHki%7B"),
    Chars("ImJvZHki?x=") \o Btoa(SamplePlain),
    UrlPrefix \o Btoa(SamplePlain) \o Chars("#top") }

Inputs == WellFormedInputs \cup NoAnchorInputs \cup UndecodableInputs

(***************************************************************************)
(* The state: the locals of a call of decodeAndCalculate, taken stage by   *)
(* stage, and the state of the App component that calls it.                *)
(***************************************************************************)
VARIABLES
  rawData,      \* the argument of the call
  pc,           \* the stage the call is about to run
  exit,         \* the return statement the call left through ("" so far)
  b64Str,       \* the candidate block, then the normalized block
  decodedText,  \* the plaintext atob produced
  height,       \* the extracted height
  scale,        \* the extracted scale
  tier,         \* the scale grammar that matched (0: none yet)
  derived,      \* currentHeight, shortestHeight, tallestHeight
  ret,          \* the value returned to the caller
  returned,     \* what earlier calls returned: pairs of input and outcome
  inputVal,     \* the text of the input field
  history,      \* the saved results, newest first
  lastResult,   \* the result on display, or Null
  status,       \* the toast
  isLoading,    \* a calculation has been started and not finished
  pending,      \* the timeouts of handleCalculate, each with its rawData
  potionCount,  \* the draws of the simulator
  simResult,    \* the height of the last draw, or Null
  simExtremeNotice,
  activeTab,
  objects,      \* the result objects created so far; history and lastResult
                \* hold references to them (positions in this sequence)
  event,        \* the handler or callback that ran last, and what it did
  steps,        \* how many handlers the user has started
  showEntryModal,
  entryCountdown,
  storage,      \* the item 'skyHeightHistory' of localStorage, or Null
  effects,      \* the effect of the commit that runs next ("done": none)
  queued        \* the history setHistory will install at the next render

callVars == <<rawData, pc, exit, b64Str, decodedText, height, scale, tier, derived, ret>>

appVars == <<inputVal, history, lastResult, status, isLoading, pending,
             potionCount, simResult, simExtremeNotice, activeTab, objects, event,
             steps, showEntryModal, entryCountdown, storage, effects, queued>>

vars == <<callVars, returned, appVars>>

\* a local the call has not assigned yet, and a call that has not returned
Unassigned == [unassigned |-> TRUE]
NoText == <<>>

\* null
Null == [null |-> TRUE]

\* the locals at the entry of a call
CallEntry ==
  /\ pc = "locate"
  /\ exit = ""
  /\ b64Str = NoText
  /\ decodedText = NoText
  /\ height = Unassigned
  /\ scale = Unassigned
  /\ tier = 0
  /\ derived = Unassigned
  /\ ret = Unassigned

\* the initial values of the useState hooks of App
AppStart ==
  /\ inputVal = NoText
  /\ history = <<>>
  /\ lastResult = Null
  /\ status = [text |-> "", type |-> "normal"]
  /\ isLoading = FALSE
  /\ pending = <<>>
  /\ potionCount = 0
  /\ simResult = Null
  /\ simExtremeNotice = ""
  /\ activeTab = "measure"
  /\ objects = <<>>
  /\ event = [name |-> "mount"]
  /\ steps = 0
  /\ showEntryModal = TRUE
  /\ entryCountdown = 5
  /\ effects = "load"
  /\ queued = Null

Init ==
  /\ rawData \in Inputs
  /\ CallEntry
  /\ returned = {}
  /\ AppStart
  /\ storage = Null

\* the two shapes of a return value
IsDouble(x) == DOMAIN x = {"neg", "m", "e"}

IsFailure(r) == DOMAIN r = {"error"}

IsResult(r) ==
  /\ DOMAIN r = {"current", "tallest", "shortest", "scale", "timestamp",
                 "note", "json"}
  /\ IsDouble(r.current) /\ IsDouble(r.tallest) /\ IsDouble(r.shortest)
  /\ IsDouble(r.scale)
  /\ DOMAIN r.json = {"height_raw", "scale_raw"}
  /\ IsDouble(r.json.height_raw) /\ IsDouble(r.json.scale_raw)

\* a return value without its timestamp
Outcome(r) == IF IsFailure(r) THEN r ELSE [r EXCEPT !.timestamp = 0]

\* return { error: translations['status_error_general'] } from a given site
ReturnError(site) ==
  /\ pc' = "done"
  /\ exit' = site
  /\ ret' = GeneralError

\* Locate without the anchor test: the block is cut even when indexOf found
\* nothing (substring clamps a negative start to 0)
LocateUnchecked ==
  /\ pc = "locate"
  /\ b64Str' = Substring(rawData, Max(startIndexOf(rawData), 0))
  /\ pc' = "normalize"
  /\ UNCHANGED <<returned, appVars, rawData, exit, decodedText, height, scale, tier, derived, ret>>

\* the anchor search and the cut of the candidate block
Locate ==
  /\ pc = "locate"
  /\ IF startIndexOf(rawData) = -1
     THEN /\ ReturnError("anchor")
          /\ UNCHANGED b64Str
     ELSE /\ b64Str' = Substring(rawData, startIndexOf(rawData))
          /\ pc' = "normalize"
          /\ UNCHANGED <<exit, ret>>
  /\ UNCHANGED <<returned, appVars, rawData, decodedText, height, scale, tier, derived>>

\* the alphabet substitution and the padding
NormalizeBlock ==
  /\ pc = "normalize"
  /\ b64Str' = Normalize(b64Str)
  /\ pc' = "decode"
  /\ UNCHANGED <<returned, appVars, rawData, exit, decodedText, height, scale, tier, derived, ret>>

\* Decode with no try around it: the exception of atob leaves the call
DecodeUncaught ==
  /\ pc = "decode"
  /\ LET dec == Atob(b64Str)
     IN  IF dec.ok
         THEN /\ decodedText' = dec.text
              /\ pc' = "height"
         ELSE /\ pc' = "thrown"
              /\ UNCHANGED decodedText
  /\ UNCHANGED <<returned, appVars, rawData, exit, b64Str, height, scale, tier, derived, ret>>

\* atob: it either yields the plaintext or throws into the catch clause
Decode ==
  /\ pc = "decode"
  /\ LET dec == Atob(b64Str)
     IN  IF dec.ok
         THEN /\ decodedText' = dec.text
              /\ pc' = "height"
         ELSE /\ pc' = "catch"
              /\ UNCHANGED decodedText
  /\ UNCHANGED <<returned, appVars, rawData, exit, b64Str, height, scale, tier, derived, ret>>

\* the catch clause around the whole body
Catch ==
  /\ pc = "catch"
  /\ ReturnError("catch")
  /\ UNCHANGED <<returned, appVars, rawData, b64Str, decodedText, height, scale, tier, derived>>

\* the height stage
ExtractHeight ==
  /\ pc = "height"
  /\ IF IndexOfIgnoreCase(decodedText, heightKey) = -1
     THEN /\ ReturnError("heightKey")
          /\ UNCHANGED height
     ELSE LET heightMatch == heightMatchOf(heightSearchAreaOf(decodedText))
          IN  IF heightMatch = <<>>
              THEN /\ ReturnError("heightValue")
                   /\ UNCHANGED height
              ELSE /\ height' = ParseFloat(heightMatch)
                   /\ pc' = "scale"
                   /\ UNCHANGED <<exit, ret>>
  /\ UNCHANGED <<returned, appVars, rawData, b64Str, decodedText, scale, tier, derived>>

\* ExtractScale with an error value of its own when no tier matches
ExtractScaleOwnError ==
  /\ pc = "scale"
  /\ IF IndexOfIgnoreCase(decodedText, scaleKey) = -1
     THEN /\ ReturnError("scaleKey")
          /\ UNCHANGED <<scale, tier>>
     ELSE LET sc == scaleOf(scaleSearchAreaOf(decodedText))
          IN  IF sc.tier = 0
              THEN /\ pc' = "done"
                   /\ exit' = "scaleValue"
                   /\ ret' = [error |-> "status_error_scale"]
                   /\ UNCHANGED <<scale, tier>>
              ELSE /\ scale' = sc.value
                   /\ tier' = sc.tier
                   /\ pc' = "formula"
                   /\ UNCHANGED <<exit, ret>>
  /\ UNCHANGED <<returned, appVars, rawData, b64Str, decodedText, height, derived>>

\* the scale stage
ExtractScale ==
  /\ pc = "scale"
  /\ IF IndexOfIgnoreCase(decodedText, scaleKey) = -1
     THEN /\ ReturnError("scaleKey")
          /\ UNCHANGED <<scale, tier>>
     ELSE LET sc == scaleOf(scaleSearchAreaOf(decodedText))
          IN  IF sc.tier = 0
              THEN /\ ReturnError("scaleValue")
                   /\ UNCHANGED <<scale, tier>>
              ELSE /\ scale' = sc.value
                   /\ tier' = sc.tier
                   /\ pc' = "formula"
                   /\ UNCHANGED <<exit, ret>>
  /\ UNCHANGED <<returned, appVars, rawData, b64Str, decodedText, height, derived>>

\* the two extremes taken around the decoded height instead of around 0
derivedAroundHeight(sc, h) ==
  [current  |-> currentHeightOf(sc, h),
   shortest |-> HeightFormula(sc, FSub(h, Num2)),
   tallest  |-> HeightFormula(sc, FAdd(h, Num2))]

\* the three heights
derivedOf(sc, h) ==
  [current  |-> currentHeightOf(sc, h),
   shortest |-> shortestHeightOf(sc),
   tallest  |-> tallestHeightOf(sc)]

Evaluate ==
  /\ pc = "formula"
  /\ derived' = derivedOf(scale, height)
  /\ pc' = "assemble"
  /\ UNCHANGED <<returned, appVars, rawData, exit, b64Str, decodedText, height, scale, tier, ret>>

\* a result that depends on what earlier calls left behind
AssembleRemembering ==
  /\ pc = "assemble"
  /\ \E t \in Clock :
       ret' = ResultRecord(IF returned = {} THEN derived.current ELSE derived.tallest,
                           derived.tallest, derived.shortest, scale, height, t)
  /\ pc' = "done"
  /\ exit' = "ok"
  /\ UNCHANGED <<returned, appVars, rawData, b64Str, decodedText, height, scale, tier, derived>>

\* the result record, stamped with the clock
Assemble ==
  /\ pc = "assemble"
  /\ \E t \in Clock :
       ret' = ResultRecord(derived.current, derived.tallest, derived.shortest,
                           scale, height, t)
  /\ pc' = "done"
  /\ exit' = "ok"
  /\ UNCHANGED <<returned, appVars, rawData, b64Str, decodedText, height, scale, tier, derived>>

\* the inputs the caller passes more than once
RepeatInputs ==
  { Btoa(SamplePlain),
    UrlPrefix \o UrlSafe(Btoa(SamplePlain)),
    Btoa(NamedPlain),
    Chars("hello") }

\* the caller keeps what the call returned and calls the function again
CallAgain ==
  /\ pc = "done"
  /\ rawData \in RepeatInputs
  /\ returned' = returned \cup {<<rawData, Outcome(ret)>>}
  /\ rawData' \in RepeatInputs
  /\ pc' = "locate"
  /\ exit' = ""
  /\ b64Str' = NoText
  /\ decodedText' = NoText
  /\ height' = Unassigned
  /\ scale' = Unassigned
  /\ tier' = 0
  /\ derived' = Unassigned
  /\ ret' = Unassigned
  /\ UNCHANGED appVars

Next ==
  \/ Locate
  \/ NormalizeBlock
  \/ Decode
  \/ Catch
  \/ ExtractHeight
  \/ ExtractScale
  \/ Evaluate
  \/ Assemble
  \/ CallAgain

Spec == Init /\ [][Next]_vars

(***************************************************************************)
(* The component: its handlers and callbacks.  A handler is an operation   *)
(* of the component, callable whenever its argument exists; which tab      *)
(* shows its button is not part of it.  React applies the state updates    *)
(* of one handler together, so a handler is one step; the callback of the  *)
(* timeout is the steps of its call of decodeAndCalculate, with no handler *)
(* in between, and a last step that applies its updates.                   *)
(***************************************************************************)
WhiteSpace == {" ", "\t", "\n", "\r", "\f"}

\* String.prototype.trim on a text
Trim(text) ==
  LET keep == {i \in 1..Len(text) : text[i] \notin WhiteSpace}
  IN  IF keep = {} THEN <<>>
      ELSE SubSeq(text, SetMin(keep), CHOOSE i \in keep : \A j \in keep : j <= i)

\* String.prototype.trim on a note
TrimNote(str) ==
  LET keep == {i \in 1..Len(str) : SubSeq(str, i, i) \notin WhiteSpace}
  IN  IF keep = {} THEN ""
      ELSE SubSeq(str, SetMin(keep), CHOOSE i \in keep : \A j \in keep : j <= i)

HugePlain == Chars("\"body\":{\"height\":1.5,\"scale\":100000000000000000.0,}")

PlainSample == Chars("\"body\":{height: 0.1234,\"scale\":0.15,}")

\* the anchor, then what atob rejects
Undecodable == Chars("ImJvZHki*")

UnitPlain == Chars("\"body\":{\"height\":-2,\"scale\":1.0,}")

\* what the user types, pastes or scans
AppInputs ==
  { Spaces(2),
    Chars(" ") \o Btoa(PlainSample) \o Chars("\n"),
    Btoa(HugePlain),
    Btoa(UnitPlain),
    Undecodable }

\* what the user answers to the note prompt
Notes == {"", " tall "}

MaxSteps == 5
HistoryLimit == 20

Num4 == DecToDouble(FALSE, BigFromInt(4), 0)
Num196 == DecToDouble(FALSE, BigFromInt(196), -2)
NumOne == DecToDouble(FALSE, BigFromInt(1), 0)

\* values Math.random() can return: 0, 0.5, and the largest one, 1 - 2^-53
RandomDraws ==
  { NumZero,
    DecToDouble(FALSE, BigFromInt(5), -1),
    FSub(NumOne, [neg |-> FALSE, m |-> BigShl(<<1>>, MantBits - 1),
                  e |-> 1 - 2 * MantBits]) }

\* any handler whose effect is read from the state alone
Other == [name |-> "other"]

\* the hooks of the entry modal and of the effects of a commit
bootVars == <<showEntryModal, entryCountdown, effects, queued>>

\* the user starts one more handler, or the timer of the toast fires: no
\* callback is running, the effects of the last commit have run, and the
\* entry modal is gone (while it is shown the content takes no pointer
\* events)
Tick ==
  /\ pc = "idle"
  /\ effects = "done"
  /\ ~showEntryModal
  /\ steps < MaxSteps
  /\ steps' = steps + 1

Toast(text, type) == [text |-> text, type |-> type]

\* a number written by JSON.stringify and read back by JSON.parse: the
\* number itself, but -0 is written as 0
JsonNumber(x) == IF FIsZero(x) THEN [x EXCEPT !.neg = FALSE] ELSE x

\* a result written by JSON.stringify and read back by JSON.parse
JsonEntry(o) ==
  [current |-> JsonNumber(o.current), tallest |-> JsonNumber(o.tallest),
   shortest |-> JsonNumber(o.shortest), scale |-> JsonNumber(o.scale),
   timestamp |-> o.timestamp, note |-> o.note,
   json |-> [height_raw |-> JsonNumber(o.json.height_raw),
             scale_raw |-> JsonNumber(o.json.scale_raw)]]

\* JSON.stringify(history): a text, given by the array it parses to
Stringify(hist, objs) ==
  [json |-> [i \in 1..Len(hist) |-> JsonEntry(objs[hist[i].ref])]]

\* a text JSON.parse throws on
Corrupt == [text |-> "{"]

NumHalf == DecToDouble(FALSE, BigFromInt(5), -1)

\* what an earlier session left in the storage: n results, newest first
Persisted(n) ==
  [json |-> [i \in 1..n |->
     ResultRecord(currentHeightOf(NumHalf, NumOne), tallestHeightOf(NumHalf),
                  shortestHeightOf(NumHalf), NumHalf, NumOne, 1 - i)]]

\* the item of the storage when the component mounts for the first time,
\* or after the item was damaged
FreshStores == {Null, Corrupt}

\* the item of the storage when the component mounts
Stores == FreshStores \cup {Persisted(HistoryLimit)}

\* the load effect: getItem, and setHistory(JSON.parse(...)) unless there is
\* no item or JSON.parse throws
LoadEffect ==
  /\ effects = "load"
  /\ queued' = IF storage # Null /\ storage # Corrupt
                THEN [list |-> storage.json] ELSE Null
  /\ effects' = "save"
  /\ event' = [name |-> "load"]
  /\ UNCHANGED <<callVars, returned, inputVal, history, lastResult, status,
                 isLoading, pending, potionCount, simResult, simExtremeNotice,
                 activeTab, objects, steps, showEntryModal, entryCountdown,
                 storage>>

\* a save effect that runs once, after the first render only
SaveEffectOnce ==
  /\ effects = "save"
  /\ storage' = IF event.name = "load" THEN Stringify(history, objects)
                 ELSE storage
  /\ effects' = IF queued = Null THEN "done" ELSE "render"
  /\ event' = [name |-> "save"]
  /\ UNCHANGED <<callVars, returned, inputVal, history, lastResult, status,
                 isLoading, pending, potionCount, simResult, simExtremeNotice,
                 activeTab, objects, steps, showEntryModal, entryCountdown,
                 queued>>

\* the save effect: setItem(JSON.stringify(history)) with the history of
\* the render it belongs to; a queued setHistory makes the next render
SaveEffect ==
  /\ effects = "save"
  /\ storage' = Stringify(history, objects)
  /\ effects' = IF queued = Null THEN "done" ELSE "render"
  /\ event' = [name |-> "save"]
  /\ UNCHANGED <<callVars, returned, inputVal, history, lastResult, status,
                 isLoading, pending, potionCount, simResult, simExtremeNotice,
                 activeTab, objects, steps, showEntryModal, entryCountdown,
                 queued>>

\* the render that installs the parsed history: its entries are new objects;
\* the history has changed, so the save effect runs again
Render ==
  /\ effects = "render"
  /\ objects' = objects \o queued.list
  /\ history' = [i \in 1..Len(queued.list) |-> [ref |-> Len(objects) + i]]
  /\ queued' = Null
  /\ effects' = "save"
  /\ event' = [name |-> "render"]
  /\ UNCHANGED <<callVars, returned, inputVal, lastResult, status, isLoading,
                 pending, potionCount, simResult, simExtremeNotice, activeTab,
                 steps, showEntryModal, entryCountdown, storage>>

\* the callback of the countdown effect's setTimeout: the effect sets the
\* timer only while the modal is shown and the countdown is above 0
EntryCountdownTimer ==
  /\ pc = "idle"
  /\ effects = "done"
  /\ showEntryModal
  /\ entryCountdown > 0
  /\ entryCountdown' = entryCountdown - 1
  /\ event' = [name |-> "entry"]
  /\ UNCHANGED <<callVars, returned, inputVal, history, lastResult, status,
                 isLoading, pending, potionCount, simResult, simExtremeNotice,
                 activeTab, objects, steps, showEntryModal, storage, effects,
                 queued>>

\* the entry button without its disabled attribute
EntryDismissEnabled ==
  /\ pc = "idle"
  /\ effects = "done"
  /\ showEntryModal
  /\ showEntryModal' = FALSE
  /\ event' = [name |-> "entry"]
  /\ UNCHANGED <<callVars, returned, inputVal, history, lastResult, status,
                 isLoading, pending, potionCount, simResult, simExtremeNotice,
                 activeTab, objects, steps, entryCountdown, storage, effects,
                 queued>>

\* the entry button: disabled={entryCountdown > 0}
EntryDismiss ==
  /\ pc = "idle"
  /\ effects = "done"
  /\ showEntryModal
  /\ ~(entryCountdown > 0)
  /\ showEntryModal' = FALSE
  /\ event' = [name |-> "entry"]
  /\ UNCHANGED <<callVars, returned, inputVal, history, lastResult, status,
                 isLoading, pending, potionCount, simResult, simExtremeNotice,
                 activeTab, objects, steps, entryCountdown, storage, effects,
                 queued>>

\* onChange={(e) => setInputVal(e.target.value)}
InputChange ==
  /\ Tick
  /\ \E text \in AppInputs : inputVal' = text
  /\ event' = Other
  /\ UNCHANGED <<callVars, returned, history, lastResult, status, isLoading,
                 pending, potionCount, simResult, simExtremeNotice, activeTab,
                 objects>>
  /\ UNCHANGED <<bootVars, storage>>

\* handleQrUpload: the code found in the picture replaces the input text;
\* a bad file, an unreadable picture or one without a code set the toast
handleQrUpload ==
  /\ Tick
  /\ \/ /\ \E data \in AppInputs \ {<<>>} : inputVal' = data
        /\ status' = status
     \/ /\ \E text \in {"status_error_general", "status_qr_fail"} :
             status' = Toast(text, "error")
        /\ inputVal' = inputVal
  /\ event' = Other
  /\ UNCHANGED <<callVars, returned, history, lastResult, isLoading, pending,
                 potionCount, simResult, simExtremeNotice, activeTab, objects>>
  /\ UNCHANGED <<bootVars, storage>>

\* handleCalculate behind a button that is never disabled
handleCalculateAnyTime ==
  /\ Tick
  /\ lastResult' = Null
  /\ LET trimmed == Trim(inputVal)
     IN  IF trimmed = <<>>
         THEN /\ status' = Toast("status_error_empty", "error")
              /\ isLoading' = FALSE
              /\ pending' = pending
              /\ event' = [name |-> "handleCalculate", started |-> FALSE]
         ELSE /\ status' = Toast("status_calculating", "normal")
              /\ isLoading' = TRUE
              /\ pending' = Append(pending, trimmed)
              /\ event' = [name |-> "handleCalculate", started |-> TRUE]
  /\ UNCHANGED <<callVars, returned, inputVal, history, potionCount, simResult,
                 simExtremeNotice, activeTab, objects>>
  /\ UNCHANGED <<bootVars, storage>>

\* handleCalculate up to setTimeout; the button is disabled while isLoading
handleCalculate ==
  /\ Tick
  /\ ~isLoading
  /\ lastResult' = Null
  /\ LET trimmed == Trim(inputVal)
     IN  IF trimmed = <<>>
         THEN /\ status' = Toast("status_error_empty", "error")
              /\ isLoading' = FALSE
              /\ pending' = pending
              /\ event' = [name |-> "handleCalculate", started |-> FALSE]
         ELSE /\ status' = Toast("status_calculating", "normal")
              /\ isLoading' = TRUE
              /\ pending' = Append(pending, trimmed)
              /\ event' = [name |-> "handleCalculate", started |-> TRUE]
  /\ UNCHANGED <<callVars, returned, inputVal, history, potionCount, simResult,
                 simExtremeNotice, activeTab, objects>>
  /\ UNCHANGED <<bootVars, storage>>

\* a callback that reads the input field when it runs
CalculateTimeoutLate ==
  /\ pc = "idle"
  /\ pending # <<>>
  /\ rawData' = Trim(inputVal)
  /\ pending' = Tail(pending)
  /\ pc' = "locate"
  /\ event' = [name |-> "callback"]
  /\ UNCHANGED <<exit, b64Str, decodedText, height, scale, tier, derived, ret,
                 returned, inputVal, history, lastResult, status, isLoading,
                 potionCount, simResult, simExtremeNotice, activeTab, objects>>
  /\ UNCHANGED <<bootVars, storage, steps>>

\* the callback of setTimeout in handleCalculate starts and calls
\* decodeAndCalculate(rawData) with the rawData of its closure; the call
\* runs stage by stage, and no handler runs before the callback has ended
CalculateTimeout ==
  /\ pc = "idle"
  /\ pending # <<>>
  /\ rawData' = Head(pending)
  /\ pending' = Tail(pending)
  /\ pc' = "locate"
  /\ event' = [name |-> "callback"]
  /\ UNCHANGED <<exit, b64Str, decodedText, height, scale, tier, derived, ret,
                 returned, inputVal, history, lastResult, status, isLoading,
                 potionCount, simResult, simExtremeNotice, activeTab, objects>>
  /\ UNCHANGED <<bootVars, storage, steps>>

\* the updater that keeps every entry
newHistoryUncapped(result, prev) == <<result>> \o prev

\* the updater of setHistory: the result in front, the last entry dropped
\* when there are more than 20
newHistoryOf(result, prev) ==
  LET newHistory == <<result>> \o prev
  IN  IF Len(newHistory) > HistoryLimit
      THEN SubSeq(newHistory, 1, Len(newHistory) - 1)
      ELSE newHistory

\* the callback without lines 209-211: the simulator is left as it was
CalculateTimeoutReturnKeepingSim ==
  /\ pc = "done"
  /\ LET res == ret
         result == [ref |-> Len(objects) + 1]
     IN  IF IsFailure(res)
         THEN /\ status' = Toast(res.error, "error")
              /\ event' = [name |-> "timeout", ok |-> FALSE]
              /\ UNCHANGED <<lastResult, history, objects, potionCount,
                             simResult, simExtremeNotice, storage>>
         ELSE /\ objects' = Append(objects, res)
              /\ lastResult' = result
              /\ status' = Toast("status_success", "success")
              /\ history' = newHistoryOf(result, history)
              /\ UNCHANGED <<potionCount, simResult, simExtremeNotice>>
              /\ storage' = Stringify(history', objects')
              /\ event' = [name |-> "timeout", ok |-> TRUE]
  /\ isLoading' = FALSE
  /\ rawData' = NoText
  /\ pc' = "idle"
  /\ exit' = ""
  /\ b64Str' = NoText
  /\ decodedText' = NoText
  /\ height' = Unassigned
  /\ scale' = Unassigned
  /\ tier' = 0
  /\ derived' = Unassigned
  /\ ret' = Unassigned
  /\ UNCHANGED <<returned, inputVal, pending, activeTab, steps>>
  /\ UNCHANGED bootVars

\* the rest of the callback: what it does with the value the call returned
CalculateTimeoutReturn ==
  /\ pc = "done"
  /\ LET res == ret
         result == [ref |-> Len(objects) + 1]
     IN  IF IsFailure(res)
         THEN /\ status' = Toast(res.error, "error")
              /\ event' = [name |-> "timeout", ok |-> FALSE]
              /\ UNCHANGED <<lastResult, history, objects, potionCount,
                             simResult, simExtremeNotice, storage>>
         ELSE /\ objects' = Append(objects, res)
              /\ lastResult' = result
              /\ status' = Toast("status_success", "success")
              /\ history' = newHistoryOf(result, history)
              /\ potionCount' = 0
              /\ simResult' = Null
              /\ simExtremeNotice' = ""
              /\ storage' = Stringify(history', objects')
              /\ event' = [name |-> "timeout", ok |-> TRUE]
  /\ isLoading' = FALSE
  /\ rawData' = NoText
  /\ pc' = "idle"
  /\ exit' = ""
  /\ b64Str' = NoText
  /\ decodedText' = NoText
  /\ height' = Unassigned
  /\ scale' = Unassigned
  /\ tier' = 0
  /\ derived' = Unassigned
  /\ ret' = Unassigned
  /\ UNCHANGED <<returned, inputVal, pending, activeTab, steps>>
  /\ UNCHANGED bootVars

\* onClick={() => {setLastResult(null); setInputVal('');}}
Remeasure ==
  /\ Tick
  /\ lastResult' = Null
  /\ inputVal' = NoText
  /\ event' = Other
  /\ UNCHANGED <<callVars, returned, history, status, isLoading, pending,
                 potionCount, simResult, simExtremeNotice, activeTab, objects>>
  /\ UNCHANGED <<bootVars, storage>>

\* the draw of handlePotionDrink
newRandomHeightOf(random) == FSub(FMul(random, Num4), Num2)

\* the values newRandomHeight can take
RandomHeights == {newRandomHeightOf(random) : random \in RandomDraws}

\* the draw taken from the scale instead
newHeightNumberOfScale(sc, h) == HeightFormula(sc, sc)

newHeightNumberOf(sc, h) == FSub(FSub(Num76, FMul(Num83, sc)), FMul(Num3, h))

\* handlePotionDrink that draws without a measurement
handlePotionDrinkUnchecked ==
  /\ Tick
  /\ \E newRandomHeight \in RandomHeights :
       /\ simResult' = newHeightNumberOf(NumZero, newRandomHeight)
       /\ event' = [name |-> "handlePotionDrink", accepted |-> TRUE,
                    newRandomHeight |-> newRandomHeight]
  /\ simExtremeNotice' = ""
  /\ potionCount' = potionCount + 1
  /\ UNCHANGED <<callVars, returned, inputVal, history, lastResult, status,
                 isLoading, pending, activeTab, objects>>
  /\ UNCHANGED <<bootVars, storage>>

handlePotionDrink ==
  /\ Tick
  /\ IF lastResult = Null
     THEN /\ activeTab' = "measure"
          /\ event' = [name |-> "handlePotionDrink", accepted |-> FALSE]
          /\ UNCHANGED <<callVars, returned, inputVal, history, lastResult,
                         status, isLoading, pending, potionCount, simResult,
                         simExtremeNotice, objects>>
     ELSE /\ \E newRandomHeight \in RandomHeights :
                   /\ simResult' = newHeightNumberOf(objects[lastResult.ref].scale,
                                                     newRandomHeight)
                   /\ simExtremeNotice' =
                        IF FLe(Num196, newRandomHeight) THEN "sim_extreme_tall"
                        ELSE IF FLe(newRandomHeight, FNeg(Num196))
                             THEN "sim_extreme_short"
                             ELSE ""
                   /\ event' = [name |-> "handlePotionDrink", accepted |-> TRUE,
                                newRandomHeight |-> newRandomHeight]
          /\ potionCount' = potionCount + 1
          /\ UNCHANGED <<callVars, returned, inputVal, history, lastResult,
                         status, isLoading, pending, activeTab, objects>>
  /\ UNCHANGED <<bootVars, storage>>

\* onClick={() => { setPotionCount(0); setSimResult(null); }}
SimReset ==
  /\ Tick
  /\ potionCount' = 0
  /\ simResult' = Null
  /\ event' = Other
  /\ UNCHANGED <<callVars, returned, inputVal, history, lastResult, status,
                 isLoading, pending, simExtremeNotice, activeTab, objects>>
  /\ UNCHANGED <<bootVars, storage>>

\* prev.filter((_, i) => i !== index), index counted from 0
WithoutIndex(list, index) ==
  SubSeq(list, 1, index) \o SubSeq(list, index + 2, Len(list))

handleDeleteHistory(index) ==
  /\ Tick
  /\ \E confirmed \in BOOLEAN :
       /\ history' = IF confirmed THEN WithoutIndex(history, index) ELSE history
       /\ storage' = IF confirmed THEN Stringify(history', objects) ELSE storage
       /\ event' = Other
  /\ UNCHANGED <<callVars, returned, inputVal, lastResult, status, isLoading,
                 pending, potionCount, simResult, simExtremeNotice, activeTab,
                 objects>>
  /\ UNCHANGED bootVars

\* onClick={() => confirm(...) && setHistory([])}
ClearHistory ==
  /\ Tick
  /\ \E confirmed \in BOOLEAN :
       /\ history' = IF confirmed THEN <<>> ELSE history
       /\ storage' = IF confirmed THEN Stringify(history', objects) ELSE storage
       /\ event' = Other
  /\ UNCHANGED <<callVars, returned, inputVal, lastResult, status, isLoading,
                 pending, potionCount, simResult, simExtremeNotice, activeTab,
                 objects>>
  /\ UNCHANGED bootVars

\* the note written to every entry
NoteEverywhere(objs, ref, note) == [i \in 1..Len(objs) |-> [objs[i] EXCEPT !.note = note]]

\* newHistory[index].note = ...: the entry is the object itself
NoteWritten(objs, ref, note) == [objs EXCEPT ![ref].note = note]

\* handleHistoryNote, index counted from 0; the prompt gives a text, or
\* Null when it is cancelled
handleHistoryNote(index) ==
  /\ Tick
  /\ \E newNote \in {[text |-> n] : n \in Notes} \cup {Null} :
       /\ objects' = IF newNote = Null THEN objects
                     ELSE NoteWritten(objects, history[index + 1].ref,
                                      TrimNote(newNote.text))
       /\ storage' = IF newNote = Null THEN storage
                     ELSE Stringify(history, objects')
       /\ event' = [name |-> "handleHistoryNote", index |-> index,
                    cancelled |-> newNote = Null]
  /\ UNCHANGED <<callVars, returned, inputVal, history, lastResult, status,
                 isLoading, pending, potionCount, simResult, simExtremeNotice,
                 activeTab>>
  /\ UNCHANGED bootVars

\* the callback of the toast's setTimeout
StatusDismiss ==
  /\ Tick
  /\ status.text # ""
  /\ status' = Toast("", "normal")
  /\ event' = Other
  /\ UNCHANGED <<callVars, returned, inputVal, history, lastResult, isLoading,
                 pending, potionCount, simResult, simExtremeNotice, activeTab,
                 objects>>
  /\ UNCHANGED <<bootVars, storage>>

\* the positions inside the call; anywhere else the call has been left
\* without a return
Positions ==
  {"locate", "normalize", "decode", "catch", "height", "scale", "formula",
   "assemble", "done"}

\* no call of decodeAndCalculate is running
Idle ==
  /\ rawData = NoText
  /\ pc = "idle"
  /\ exit = ""
  /\ b64Str = NoText
  /\ decodedText = NoText
  /\ height = Unassigned
  /\ scale = Unassigned
  /\ tier = 0
  /\ derived = Unassigned
  /\ ret = Unassigned

AppInit ==
  Idle /\ returned = {} /\ AppStart /\ storage \in FreshStores \cup {Persisted(1)}

\* the entries the user picks: the two newest and the oldest
Picked == {index \in 0..(Len(history) - 1) : index < 2 \/ index = Len(history) - 1}

AppNext ==
  \/ LoadEffect
  \/ SaveEffect
  \/ Render
  \/ EntryCountdownTimer
  \/ EntryDismiss
  \/ InputChange
  \/ handleQrUpload
  \/ handleCalculate
  \/ CalculateTimeout
  \/ Locate
  \/ NormalizeBlock
  \/ Decode
  \/ Catch
  \/ ExtractHeight
  \/ ExtractScale
  \/ Evaluate
  \/ Assemble
  \/ CalculateTimeoutReturn
  \/ Remeasure
  \/ handlePotionDrink
  \/ SimReset
  \/ \E index \in Picked : handleDeleteHistory(index)
  \/ ClearHistory
  \/ \E index \in Picked : handleHistoryNote(index)
  \/ StatusDismiss

AppSpec == AppInit /\ [][AppNext]_vars

\* a call of decodeAndCalculate that has not reached its return moves on;
\* each stage can run whenever the call is at it
CallRuns == pc \in (Positions \ {"done"}) /\ pc' \in Positions

\* the component with what its timers and effects guarantee: an effect of a
\* commit runs, a timer that was set and not cleared fires, and the callback
\* of the calculation, a synchronous function, runs to its end
AppLiveSpec ==
  /\ AppSpec
  /\ WF_vars(LoadEffect) /\ WF_vars(SaveEffect) /\ WF_vars(Render)
  /\ WF_vars(EntryCountdownTimer)
  /\ WF_vars(CalculateTimeout)
  /\ WF_pc(CallRuns)
  /\ WF_vars(CalculateTimeoutReturn)

\* the component in a session that finds the history of an earlier one in
\* the storage, and in which the user calculates and edits the history
HistoryInit == Idle /\ returned = {} /\ AppStart /\ storage \in Stores

HistoryNext ==
  \/ LoadEffect
  \/ SaveEffect
  \/ Render
  \/ EntryCountdownTimer
  \/ EntryDismiss
  \/ InputChange
  \/ handleCalculate
  \/ CalculateTimeout
  \/ Locate
  \/ NormalizeBlock
  \/ Decode
  \/ Catch
  \/ ExtractHeight
  \/ ExtractScale
  \/ Evaluate
  \/ Assemble
  \/ CalculateTimeoutReturn
  \/ \E index \in Picked : handleDeleteHistory(index)
  \/ ClearHistory
  \/ \E index \in Picked : handleHistoryNote(index)

HistorySpec == HistoryInit /\ [][HistoryNext]_vars

\* the value a reference stands for
Deref(r) == IF r = Null THEN Null ELSE objects[r.ref]

(***************************************************************************)
(* Properties of the call.                                                 *)
(***************************************************************************)
HasDigit(s) == \E i \in 1..Len(s) : s[i] \in Digits

\* the stages that have run, read off the position of the call
DecodeHasRun == pc \in {"catch", "height", "scale", "formula", "assemble"}
                  \/ (pc = "done" /\ exit # "anchor")
HeightHasRun == pc \in {"scale", "formula", "assemble"}
                  \/ (pc = "done" /\ exit \notin {"anchor", "catch"})
ScaleHasRun == pc \in {"formula", "assemble"}
                 \/ (pc = "done" /\ exit \in {"scaleKey", "scaleValue", "ok"})
Succeeded == pc = "done" /\ exit = "ok"

\* C1: an input that does not contain the anchor "ImJvZHki" is answered with
\* the failure of the anchor test, and neither the normalizer nor the decoder
\* ever runs for it: the call goes from the anchor test straight to its
\* return, the block and the plaintext are never assigned.
C1_NoAnchorNoDecoding ==
  IndexOf(rawData, Chars("ImJvZHki")) = -1 =>
    /\ pc \in {"locate", "done"}
    /\ b64Str = NoText
    /\ decodedText = NoText
    /\ pc = "done" => (exit = "anchor" /\ IsFailure(ret))

C1_Witness ==
  /\ pc = "done"
  /\ exit = "anchor"
  /\ rawData = Tail(Btoa(SamplePlain))
  /\ IsFailure(ret)

\* C2: every call returns exactly one of a complete result and a failure,
\* never both, never a partial result, and no exception leaves the call: the
\* call is never left except through a return, a value is returned exactly
\* there, and a block atob rejects ends in the failure returned by the catch
\* clause.
C2_ExactlyOneOutcome ==
  /\ pc \in Positions
  /\ (pc = "done") <=> (ret # Unassigned)
  /\ pc = "done" =>
       \/ (exit = "ok" /\ IsResult(ret) /\ ~IsFailure(ret))
       \/ (exit # "ok" /\ IsFailure(ret) /\ ~IsResult(ret))
  /\ (DecodeHasRun /\ ~Atob(b64Str).ok) =>
       (pc = "catch" \/ (pc = "done" /\ exit = "catch" /\ IsFailure(ret)))

C2_Witness ==
  /\ pc = "done"
  /\ exit = "catch"
  /\ ~Atob(b64Str).ok
  /\ IsFailure(ret)

\* the error kinds C3 names for the six causes
KindOf(site) ==
  CASE site = "anchor"      -> "AnchorNotFound"
    [] site = "catch"       -> "DecodeFailure"
    [] site = "heightKey"   -> "HeightKeyNotFound"
    [] site = "heightValue" -> "HeightValueNotFound"
    [] site = "scaleKey"    -> "ScaleKeyNotFound"
    [] site = "scaleValue"  -> "ScaleValueNotFound"

\* the cause of a failure, read off the data of the call
CauseOf ==
  IF startIndexOf(rawData) = -1 THEN "anchor"
  ELSE IF ~Atob(b64Str).ok THEN "catch"
  ELSE IF IndexOfIgnoreCase(decodedText, heightKey) = -1 THEN "heightKey"
  ELSE IF ~HasDigit(heightSearchAreaOf(decodedText)) THEN "heightValue"
  ELSE IF IndexOfIgnoreCase(decodedText, scaleKey) = -1 THEN "scaleKey"
  ELSE "scaleValue"

\* C3 as stated: each failure cause is reported as its own error kind, so
\* that no two causes produce the same failure value.
C3_DistinctKinds ==
  (pc = "done" /\ exit # "ok") => ret = [error |-> KindOf(exit)]

\* C3: every failure, whichever of the six causes it has, returns the one
\* general error value; the causes differ only in the return statement taken,
\* which is the one of the first cause that applies.
C3_OneFailureValue ==
  (pc = "done" /\ exit # "ok") =>
    /\ ret = GeneralError
    /\ exit = CauseOf

C3_Witness ==
  /\ pc = "done"
  /\ exit = "scaleValue"
  /\ ret = GeneralError
  /\ IndexOfIgnoreCase(decodedText, scaleKey) # -1

\* C4: the scale tiers are tried in the order scientific, plain decimal, bare
\* integer, stopping at the first that matches: when the text after the scale
\* marker holds a scientific token the scale is mantissa * 10^exponent even
\* if a plain decimal token is there too, before or after it; the plain
\* decimal is used only without a scientific token, and the bare integer only
\* when neither of the two matches.
C4_TierOrder ==
  (ScaleHasRun /\ IndexOfIgnoreCase(decodedText, scaleKey) # -1) =>
    LET area == scaleSearchAreaOf(decodedText)
        sci  == scientificMatchOf(area)
        std  == standardFloatMatchOf(area)
    IN  /\ sci.ok =>
             /\ tier = 1
             /\ scale = FMul(ParseFloat(sci.mantissa),
                             MathPow10(ParseExponent(sci.exponent)))
        /\ (~sci.ok /\ std # <<>>) => (tier = 2 /\ scale = ParseFloat(std))
        /\ tier = 3 => (~sci.ok /\ std = <<>>)
        /\ tier = 0 => (~sci.ok /\ std = <<>> /\ exit = "scaleValue")

\* a plain decimal (0.25) stands before the scientific token (3e2), and the
\* scale is the scientific one, 300
C4_Witness ==
  /\ pc = "done"
  /\ exit = "ok"
  /\ tier = 1
  /\ standardFloatMatchOf(scaleSearchAreaOf(decodedText)) = Chars("0.25")
  /\ scale = DecToDouble(FALSE, BigFromInt(3), 2)

\* the first run of at most MaxIntDigits digits of a text that holds a digit
FirstDigitRun(w) ==
  LET i == SetMin({k \in 1..Len(w) : w[k] \in Digits})
      j == Min(RunEnd(w, i, Digits), i + MaxIntDigits)
  IN  SubSeq(w, i, j - 1)

\* C5 as stated: when neither the scientific nor the plain decimal tier
\* matches, the bare integer tier finds the first run of 1 to 10 digits
\* anywhere in the first 30 characters after the scale marker, whatever
\* characters precede it, and the scale is that integer / 1000000000; the
\* call fails only if the window holds no digit.
C5_FirstDigitsInWindow ==
  (ScaleHasRun /\ IndexOfIgnoreCase(decodedText, scaleKey) # -1) =>
    LET area == scaleSearchAreaOf(decodedText)
        w    == SubSeq(area, 1, Min(30, Len(area)))
    IN  (~scientificMatchOf(area).ok /\ standardFloatMatchOf(area) = <<>>) =>
          IF HasDigit(w)
          THEN /\ tier = 3
               /\ scale = FDiv(ParseInt(FirstDigitRun(w)),
                               DecToDouble(FALSE, BigFromInt(1), 9))
          ELSE pc = "done" /\ exit = "scaleValue" /\ IsFailure(ret)

\* where a signed decimal number can start in a text
NumberStartsAt(s, i) ==
  LET at(k) == IF k <= Len(s) THEN s[k] ELSE ""
  IN  \/ at(i) \in Digits
      \/ at(i) = "." /\ at(i + 1) \in Digits
      \/ at(i) = "-" /\ at(i + 1) \in Digits
      \/ at(i) = "-" /\ at(i + 1) = "." /\ at(i + 2) \in Digits

\* C6: the height marker "eigh" is searched without regard to case; without
\* it the call fails; otherwise the height is the first signed decimal number
\* of the text right after the first occurrence of the marker, and the call
\* fails when no number follows the marker.
C6_HeightExtraction ==
  HeightHasRun =>
    LET hits == {i \in 0..(Len(decodedText) - 4) :
                   /\ decodedText[i + 1] \in {"e", "E"}
                   /\ decodedText[i + 2] \in {"i", "I"}
                   /\ decodedText[i + 3] \in {"g", "G"}
                   /\ decodedText[i + 4] \in {"h", "H"}}
    IN  IF hits = {}
        THEN pc = "done" /\ exit = "heightKey" /\ IsFailure(ret)
                         /\ height = Unassigned
        ELSE LET area   == SubSeq(decodedText, SetMin(hits) + 5, Len(decodedText))
                 starts == {i \in 1..Len(area) : NumberStartsAt(area, i)}
             IN  IF starts = {}
                 THEN pc = "done" /\ exit = "heightValue" /\ IsFailure(ret)
                                  /\ height = Unassigned
                 ELSE LET token == heightMatchOf(area)
                          from  == SetMin(starts)
                      IN  /\ exit \notin {"heightKey", "heightValue"}
                          /\ token # <<>>
                          /\ SubSeq(area, from, from + Len(token) - 1) = token
                          /\ height = ParseFloat(token)

\* the marker is first met inside "weight", so the height is the 7 after it
C6_Witness ==
  /\ pc = "done"
  /\ exit = "ok"
  /\ IndexOf(decodedText, Chars("weight")) # -1
  /\ IndexOf(decodedText, Chars("weight")) < IndexOf(decodedText, Chars("height"))
  /\ height = DecToDouble(FALSE, BigFromInt(7), 0)

Num6 == DecToDouble(FALSE, BigFromInt(6), 0)

\* C7: in every result, current = 7.6 - 8.3*scale - 3*height, shortest =
\* 7.6 - 8.3*scale + 6 and tallest = 7.6 - 8.3*scale - 6, for the extracted
\* height and scale; the scale and the two raw fields of the result are the
\* extracted values and the note is empty.
C7_FormulaAndRecord ==
  Succeeded =>
    LET base == FSub(Num76, FMul(Num83, scale))
    IN  /\ ret.current = FSub(base, FMul(Num3, height))
        /\ ret.shortest = FAdd(base, Num6)
        /\ ret.tallest = FSub(base, Num6)
        /\ ret.scale = scale
        /\ ret.json = [height_raw |-> height, scale_raw |-> scale]
        /\ ret.note = ""
        /\ ret.timestamp \in Clock

C7_Witness ==
  /\ Succeeded
  /\ height = DecToDouble(TRUE, BigFromInt(15), -1)
  /\ scale = DecToDouble(FALSE, BigFromInt(5), -1)
  /\ FLt(DecToDouble(FALSE, BigFromInt(794), -2), ret.current)
  /\ FLt(ret.current, DecToDouble(FALSE, BigFromInt(796), -2))

\* |a - b| <= eps
Close(a, b, eps) == FLe(FSub(a, b), eps) /\ FLe(FSub(b, a), eps)

\* the payload of the worked example
C8Payload ==
  /\ IndexOf(decodedText, Chars("height: 0.1234")) # -1
  /\ IndexOf(decodedText, Chars("\"scale\":1.5e-1")) # -1

\* C8 as stated: the payload with "height: 0.1234" and "scale":1.5e-1 gives
\* height 0.1234, scale 0.15 and a current of approximately 6.0868.
C8_ExampleAsStated ==
  (pc = "done" /\ C8Payload) =>
    /\ exit = "ok"
    /\ height = DecToDouble(FALSE, BigFromInt(1234), -4)
    /\ Close(scale, DecToDouble(FALSE, BigFromInt(15), -2),
             DecToDouble(FALSE, BigFromInt(1), -9))
    /\ Close(ret.current, DecToDouble(FALSE, BigFromInt(60868), -4),
             DecToDouble(FALSE, BigFromInt(5), -5))

\* C8: the payload with "height: 0.1234" and "scale":1.5e-1 gives height
\* 0.1234, scale 1.5 * 10^-1 (the number 0.15000000000000002, the neighbour
\* of 0.15) and current = 7.6 - 8.3*scale - 3*0.1234, which is approximately
\* 5.9848.
C8_WorkedExample ==
  (pc = "done" /\ C8Payload) =>
    /\ exit = "ok"
    /\ height = DecToDouble(FALSE, BigFromInt(1234), -4)
    /\ scale = DecToDouble(FALSE, DigitsToBig(Chars("15000000000000002")), -17)
    /\ ret.current = FSub(FSub(Num76, FMul(Num83, scale)), FMul(Num3, height))
    /\ Close(ret.current, DecToDouble(FALSE, BigFromInt(59848), -4),
             DecToDouble(FALSE, BigFromInt(5), -5))

C8_Witness ==
  /\ pc = "done"
  /\ C8Payload
  /\ rawData = Btoa(SamplePlain)
  /\ exit = "ok"
  /\ tier = 1

Num10 == DecToDouble(FALSE, BigFromInt(10), 0)
Num12 == DecToDouble(FALSE, BigFromInt(12), 0)

\* heights other than the decoded one
SampleHeights ==
  { NumZero, Num2, FNeg(Num2), Num6,
    DecToDouble(FALSE, BigFromInt(1234), -4),
    DecToDouble(TRUE, BigFromInt(25), -1) }

\* shortest and tallest are the same whatever height comes with the scale
OnlyScaleMatters ==
  \A h \in SampleHeights :
    /\ derivedOf(scale, h).shortest = ret.shortest
    /\ derivedOf(scale, h).tallest = ret.tallest

\* C9 as stated: in every result, for every scale and height, shortest is
\* greater than tallest and shortest - tallest is exactly 12, and both depend
\* only on the scale.
C9_AlwaysTwelveApart ==
  Succeeded =>
    /\ FLt(ret.tallest, ret.shortest)
    /\ FSub(ret.shortest, ret.tallest) = Num12
    /\ OnlyScaleMatters

\* C9: in every result shortest >= tallest and both depend only on the
\* scale; when |7.6 - 8.3*scale| < 10, which covers the scales in (0, 1),
\* shortest is greater than tallest and shortest - tallest is exactly 12.
C9_ShortestNotBelowTallest ==
  Succeeded =>
    LET base == FSub(Num76, FMul(Num83, scale))
    IN  /\ FLe(ret.tallest, ret.shortest)
        /\ OnlyScaleMatters
        /\ (FLt(FNeg(Num10), base) /\ FLt(base, Num10)) =>
             /\ FLt(ret.tallest, ret.shortest)
             /\ FSub(ret.shortest, ret.tallest) = Num12

\* scale 0.45: 7.6 - 8.3*scale lies in (3.6, 4), where adding 6 rounds
C9_Witness ==
  /\ Succeeded
  /\ scale = DecToDouble(FALSE, BigFromInt(45), -2)
  /\ height \notin SampleHeights
  /\ FSub(ret.shortest, ret.tallest) = Num12

\* the height range the two extremes are taken at
InHeightRange(h) == FLe(FNeg(Num2), h) /\ FLe(h, Num2)

\* C10 as stated: for a decoded height in [-2.0, 2.0],
\* tallest >= current >= shortest.
C10_TallestOnTop ==
  (Succeeded /\ InHeightRange(height)) =>
    /\ FLe(ret.current, ret.tallest)
    /\ FLe(ret.shortest, ret.current)

\* C10: for a decoded height in [-2.0, 2.0], shortest >= current >= tallest:
\* the value named shortest is the upper end and the one named tallest the
\* lower end.
C10_ShortestOnTop ==
  (Succeeded /\ InHeightRange(height)) =>
    /\ FLe(ret.current, ret.shortest)
    /\ FLe(ret.tallest, ret.current)

C10_Witness ==
  /\ Succeeded
  /\ InHeightRange(height)
  /\ FLt(ret.tallest, ret.current)
  /\ FLt(ret.current, ret.shortest)

\* current lies in the closed interval between tallest and shortest
CurrentInside ==
  FLe(ret.tallest, ret.current) /\ FLe(ret.current, ret.shortest)

\* a height outside [-2.0, 2.0] by at least 0.000000001
ClearlyOutside(h) ==
  LET margin == DecToDouble(FALSE, BigFromInt(1), -9)
  IN  \/ FLe(FAdd(Num2, margin), h)
      \/ FLe(h, FNeg(FAdd(Num2, margin)))

\* C11 as stated: in every result, current lies in the closed interval
\* between tallest and shortest if and only if the decoded height lies in
\* [-2.0, 2.0].
C11_InsideIffInRange ==
  Succeeded => (CurrentInside <=> InHeightRange(height))

\* C11: current is never clamped, it is the value of the formula at the
\* decoded height; it lies in the closed interval between tallest and
\* shortest when the height lies in [-2.0, 2.0], and when
\* |7.6 - 8.3*scale| < 10 a height clearly outside that range gives a current
\* outside the interval.
C11_NoClamping ==
  Succeeded =>
    LET base == FSub(Num76, FMul(Num83, scale))
    IN  /\ ret.current = FSub(base, FMul(Num3, height))
        /\ InHeightRange(height) => CurrentInside
        /\ (FLt(FNeg(Num10), base) /\ FLt(base, Num10) /\ ClearlyOutside(height))
             => ~CurrentInside

\* height -2.5 at scale 0.5: current 10.95 lies above shortest 9.45
C11_Witness ==
  /\ Succeeded
  /\ height = DecToDouble(TRUE, BigFromInt(25), -1)
  /\ scale = DecToDouble(FALSE, BigFromInt(5), -1)
  /\ FLt(ret.shortest, ret.current)

NormalizeHasRun == pc = "decode" \/ DecodeHasRun

\* the occurrences of the anchor in the input (0-based)
AnchorHits ==
  {i \in 0..(Len(rawData) - 8) : SubSeq(rawData, i + 1, i + 8) = Chars("ImJvZHki")}

\* the suffix of the input from the first occurrence of the anchor
AnchoredSuffix == SubSeq(rawData, SetMin(AnchorHits) + 1, Len(rawData))

\* C15: the normalizer is a total rewrite: its output holds no '-' and no
\* '_', is the block with every '-' replaced by '+' and every '_' by '/',
\* followed by 0 to 3 '=' that make its length a multiple of 4, and
\* normalizing the output again changes nothing.
C15_NormalizerRewrite ==
  NormalizeHasRun =>
    LET block == AnchoredSuffix
        pad   == Len(b64Str) - Len(block)
    IN  /\ \A i \in 1..Len(b64Str) : b64Str[i] \notin {"-", "_"}
        /\ pad \in 0..3
        /\ Len(b64Str) % 4 = 0
        /\ \A i \in 1..Len(block) :
             b64Str[i] = (IF block[i] = "-" THEN "+"
                          ELSE IF block[i] = "_" THEN "/" ELSE block[i])
        /\ \A i \in (Len(block) + 1)..Len(b64Str) : b64Str[i] = "="
        /\ Normalize(b64Str) = b64Str

\* a block with '-' and '_' that needs two '='
C15_Witness ==
  /\ pc = "decode"
  /\ \E i \in 1..Len(AnchoredSuffix) : AnchoredSuffix[i] = "-"
  /\ \E i \in 1..Len(AnchoredSuffix) : AnchoredSuffix[i] = "_"
  /\ Len(b64Str) = Len(AnchoredSuffix) + 2

\* C16: with the anchor present, the candidate block is exactly the suffix
\* of the input from the first occurrence of the anchor, anchor included:
\* the text before the anchor has no influence on what is returned, and all
\* of the text after it, trailing text included, reaches the decoder.
C16_BlockIsSuffix ==
  AnchorHits # {} =>
    /\ pc = "normalize" => b64Str = AnchoredSuffix
    /\ pc = "decode" =>
         /\ Len(b64Str) >= Len(AnchoredSuffix)
         /\ \A i \in 1..Len(AnchoredSuffix) :
              AnchoredSuffix[i] \notin {"-", "_"} => b64Str[i] = AnchoredSuffix[i]
    /\ pc = "done" =>
         /\ exit # "anchor"
         /\ Outcome(ret) = Outcome(decodeAndCalculate(AnchoredSuffix, 1))

\* a link in front of the block, and the result of the block alone
C16_Witness ==
  /\ pc = "done"
  /\ exit = "ok"
  /\ SetMin(AnchorHits) > 0
  /\ Outcome(ret) = Outcome(decodeAndCalculate(Btoa(SamplePlain), 1))

\* the payload with a first and a second field
Body(first, second) == Chars("\"body\":{") \o first \o second \o Chars("}")

\* C17 as stated: the two extractors search the whole plaintext for their
\* own marker and share no cursor, so the extracted height and scale are the
\* same whether the scale field stands before or after the height field:
\* when a payload and the payload with its two fields swapped both decode,
\* they give the same height and the same scale.
C17_SameInEitherOrder ==
  Succeeded =>
    \A h \in HeightFrags, s \in ScaleFrags :
      decodedText = Body(s, h) =>
        LET other == decodeAndCalculate(Btoa(Body(h, s)), 1)
        IN  IsResult(other) =>
              /\ other.json.height_raw = height
              /\ other.json.scale_raw = scale

\* C12: apart from the timestamp a call is a function of its input: whatever
\* calls were made before it, on the same or on other inputs, a call on an
\* input returns what the function gives for that input alone, so it returns
\* what every earlier call on the same input returned, the same failure or a
\* result with the same current, tallest, shortest, scale and raw fields;
\* the call leaves everything but its own locals alone.
C12_Deterministic ==
  /\ pc = "done" =>
       /\ \A p \in returned : p[1] = rawData => p[2] = Outcome(ret)
       /\ rawData \in RepeatInputs =>
            Outcome(ret) = Outcome(decodeAndCalculate(rawData, 1))
  /\ \A p \in returned, q \in returned : p[1] = q[1] => p[2] = q[2]
  /\ AppStart

\* the same input a second time, after a call on another input
C12_Witness ==
  /\ pc = "done"
  /\ exit = "ok"
  /\ \E p \in returned : p[1] = rawData /\ p[2] = Outcome(ret)
  /\ \E p \in returned : p[1] # rawData
  /\ ret.timestamp = 2

(***************************************************************************)
(* The component.                                                          *)
(***************************************************************************)
\* a result has been created: a decode has succeeded at some time
DecodeSucceeded == objects # <<>>

DrinkRan == event.name = "handlePotionDrink"

\* C13 as stated: the simulation is rejected when no decode has succeeded
\* before it and accepted, with a simulation result, in every other case.
C13_RejectedOnlyBeforeFirstDecode ==
  DrinkRan =>
    /\ event.accepted <=> DecodeSucceeded
    /\ event.accepted => IsDouble(simResult)

\* C13: the simulation is rejected exactly when no result is on display
\* (lastResult is null), which is the case before the first successful
\* decode, and also after a re-measure or once a later calculation has been
\* started, even though a decode succeeded earlier; in every other case it
\* is accepted and leaves a simulation result.  A rejected simulation
\* changes neither simResult nor potionCount (nor the history, the results
\* or the input).
C13_RejectedWithoutCurrentResult ==
  /\ [](~DecodeSucceeded => lastResult = Null)
  /\ [][event'.name = "handlePotionDrink" =>
          IF lastResult = Null
          THEN /\ ~event'.accepted
               /\ simResult' = simResult
               /\ potionCount' = potionCount
               /\ UNCHANGED <<history, objects, lastResult, inputVal,
                              simExtremeNotice>>
          ELSE /\ event'.accepted
               /\ IsDouble(simResult')]_vars

\* a decode succeeded and a draw was accepted, the result was then taken
\* off display, and the next draw is rejected and keeps the earlier draw
C13_Witness ==
  /\ DrinkRan
  /\ ~event.accepted
  /\ DecodeSucceeded
  /\ IsDouble(simResult)
  /\ potionCount = 1

DrinkAccepted == DrinkRan /\ event.accepted

\* C14 as stated: an accepted draw leaves 7.6 - 8.3*scale - 3*h with h in
\* [-2, 2) and the scale of the result on display, above that result's
\* tallest and not above its shortest.
C14_AboveTallest ==
  DrinkAccepted =>
    LET h == event.newRandomHeight
        last == Deref(lastResult)
    IN  /\ simResult = HeightFormula(last.scale, h)
        /\ FLe(FNeg(Num2), h) /\ FLt(h, Num2)
        /\ FLt(last.tallest, simResult)
        /\ FLe(simResult, last.shortest)

\* C14: an accepted draw leaves 7.6 - 8.3*scale - 3*h, computed in binary64,
\* with h in [-2, 2) and the scale of the result on display, which is the
\* most recent successful result; the value lies between that result's
\* tallest and shortest, both inclusive, and is strictly above the tallest
\* when the scale is at most 1 in magnitude (for a scale as large as 1e17
\* the three values are the same number).  The draw adds exactly one to
\* potionCount and leaves lastResult, the history and the results alone.
C14_DrawWithinRange ==
  /\ [](DrinkAccepted =>
          LET h == event.newRandomHeight
              last == Deref(lastResult)
          IN  /\ lastResult = [ref |-> Len(objects)]
              /\ simResult = HeightFormula(last.scale, h)
              /\ FLe(FNeg(Num2), h) /\ FLt(h, Num2)
              /\ FLe(last.tallest, simResult)
              /\ FLe(simResult, last.shortest)
              /\ (FLe(FNeg(NumOne), last.scale) /\ FLe(last.scale, NumOne))
                   => FLt(last.tallest, simResult))
  /\ [][(event'.name = "handlePotionDrink" /\ event'.accepted) =>
          /\ potionCount' = potionCount + 1
          /\ UNCHANGED <<lastResult, history, objects>>]_vars

\* the second draw in a row, the largest one there is, on a scale of 1
C14_Witness ==
  /\ DrinkAccepted
  /\ potionCount = 2
  /\ FLt(DecToDouble(FALSE, BigFromInt(199), -2), event.newRandomHeight)
  /\ FEq(Deref(lastResult).scale, NumOne)
  /\ FLt(Deref(lastResult).tallest, simResult)

\* the steps of a calculation that ends in failure: handleCalculate on an
\* input that is empty once trimmed or that the pipeline rejects, the start
\* of the callback on such an input, and its end, which delivers the failure
FailedCalculationStep ==
  \/ /\ event'.name = "handleCalculate"
     /\ \/ Trim(inputVal) = NoText
        \/ IsFailure(decodeAndCalculate(Trim(inputVal), 1))
  \/ /\ pc = "idle"
     /\ event'.name = "callback"
     /\ IsFailure(decodeAndCalculate(Head(pending), 1))
  \/ /\ event'.name = "timeout"
     /\ ~event'.ok

\* the last step of a calculation that ends in failure
FailedCalculationEnd ==
  \/ event'.name = "handleCalculate" /\ ~event'.started
  \/ event'.name = "timeout" /\ ~event'.ok

C18_AllButLastResult ==
  [][/\ FailedCalculationStep =>
          UNCHANGED <<history, potionCount, simResult, objects>>
     /\ FailedCalculationEnd => ~isLoading']_vars

\* a result without its note
Unnoted(result) == [result EXCEPT !.note = ""]

NoteRan == event.name = "handleHistoryNote"

\* C19: a result keeps its timestamp and its numeric fields for as long as
\* the component runs, whatever handler runs.  handleHistoryNote leaves the
\* history with the same entries in the same order, changes nothing of any
\* entry but the one at the index it is given, and of that one only the
\* note, which becomes the trimmed answer; when the prompt is cancelled
\* nothing changes at all.
C19_OnlyTheNote ==
  /\ [][/\ Len(objects') >= Len(objects)
        /\ \A r \in 1..Len(objects) : Unnoted(objects'[r]) = Unnoted(objects[r])]_vars
  /\ [][event'.name = "handleHistoryNote" =>
          LET at == event'.index + 1
          IN  /\ at \in 1..Len(history)
              /\ history' = history
              /\ \A i \in 1..Len(history) :
                   /\ Unnoted(objects'[history[i].ref]) = Unnoted(Deref(history[i]))
                   /\ i # at => objects'[history[i].ref] = Deref(history[i])
              /\ IF event'.cancelled
                 THEN objects' = objects
                 ELSE objects'[history[at].ref].note \in {TrimNote(n) : n \in Notes}
              /\ UNCHANGED <<inputVal, lastResult, status, isLoading, pending,
                             potionCount, simResult, simExtremeNotice>>]_vars

\* two entries, the older one with a note just written, the newer one
\* without
C19_Witness ==
  /\ NoteRan
  /\ event.index = 1
  /\ ~event.cancelled
  /\ Len(history) = 2
  /\ Deref(history[2]).note = "tall"
  /\ Deref(history[1]).note = ""
  /\ Deref(history[2]).timestamp = 1

TimeoutRan == event.name = "timeout"

\* C20: the delay changes nothing of the outcome.  handleCalculate hands
\* the timeout the trimmed text of the input field as it is when the
\* button is pressed; no other handler (typing, a scanned code, re-measure)
\* touches what a pending timeout holds; the callback calls
\* decodeAndCalculate on the text it was handed; and what it delivers, the
\* new lastResult or the failure in the toast, is what decodeAndCalculate
\* gives for that text, whatever the input field holds by then.
C20_DelayKeepsOutcome ==
  /\ [][(event'.name = "handleCalculate" /\ event'.started) =>
          pending' = Append(pending, Trim(inputVal))]_vars
  /\ [][(pc = "idle" /\ event'.name \notin {"handleCalculate", "callback"}) =>
          pending' = pending]_vars
  /\ [][(pc = "idle" /\ event'.name = "callback") =>
          pending # <<>> /\ rawData' = Head(pending)]_vars
  /\ [][pc # "idle" =>
          /\ pending' = pending
          /\ pc' # "idle" => rawData' = rawData]_vars
  /\ [][event'.name = "timeout" =>
          LET due == decodeAndCalculate(rawData, 1)
          IN  /\ event'.ok = ~IsFailure(due)
              /\ IF event'.ok
                 THEN /\ lastResult' = [ref |-> Len(objects')]
                      /\ Outcome(objects'[Len(objects')]) = Outcome(due)
                 ELSE /\ status' = Toast(due.error, "error")
                      /\ UNCHANGED <<lastResult, objects>>]_vars

\* a result is delivered while the input field holds a text the pipeline
\* rejects
C20_Witness ==
  /\ TimeoutRan
  /\ event.ok
  /\ lastResult # Null
  /\ inputVal = Undecodable
  /\ FEq(Deref(lastResult).scale, NumOne)

(***************************************************************************)
(* Properties of the history, the simulator, the entry modal and the       *)
(* storage.                                                                *)
(***************************************************************************)
\* the callback of a calculation ends
CallbackEnds == pc = "done" /\ pc' = "idle"

\* C21: the history never holds more than 20 entries and is ordered newest
\* first: the callback of a successful calculation puts the new result in
\* front of the entries there were, of which it drops only the last one, and
\* only when there were 20; the callback of a failed calculation leaves the
\* history as it was; and every other step (a deletion, a clear, a note, the
\* start of a calculation) leaves the history as it was, empties it, or
\* removes one entry without reordering the others.  The history that the
\* load effect restores is installed as stored.
C21_BoundedNewestFirst ==
  /\ [](Len(history) <= HistoryLimit)
  /\ [][CallbackEnds =>
          IF IsFailure(ret) THEN history' = history /\ objects' = objects
          ELSE /\ objects' = Append(objects, ret)
               /\ history'[1] = [ref |-> Len(objects')]
               /\ Tail(history') =
                    SubSeq(history, 1, Min(Len(history), HistoryLimit - 1))]_vars
  /\ [][(~CallbackEnds /\ effects # "render") =>
          \/ history' = history
          \/ history' = <<>>
          \/ \E index \in 0..(Len(history) - 1) :
               history' = WithoutIndex(history, index)]_vars

\* a successful calculation has just pushed the oldest of 20 entries out
C21_Witness ==
  /\ event = [name |-> "timeout", ok |-> TRUE]
  /\ Len(history) = HistoryLimit
  /\ history[1].ref = HistoryLimit + 1
  /\ history[HistoryLimit].ref = HistoryLimit - 1

\* handleCalculate has just run
CalculateRan == event'.name = "handleCalculate" /\ steps' = steps + 1

\* C22: at most one delayed calculation exists at any time, waiting for its
\* timer or running its callback; isLoading is true exactly while there is
\* one; every started calculation completes, which sets isLoading back to
\* false; and handleCalculate on an input that trims to the empty text sets
\* no timer, leaves isLoading false and does not call the pipeline, which
\* only ever runs on a non-empty trimmed text, while on any other input it
\* sets one timer with the trimmed text and isLoading.
C22_OnePendingAndCompletes ==
  /\ [](Len(pending) + (IF pc = "idle" THEN 0 ELSE 1) <= 1)
  /\ [](isLoading <=> (pending # <<>> \/ pc # "idle"))
  /\ (isLoading ~> ~isLoading)
  /\ [][CalculateRan =>
          /\ pc' = "idle" /\ rawData' = NoText
          /\ IF Trim(inputVal) = <<>>
             THEN pending' = <<>> /\ ~isLoading' /\ ~event'.started
             ELSE pending' = <<Trim(inputVal)>> /\ isLoading'
                    /\ event'.started]_vars
  /\ [](pc # "idle" => (rawData # <<>> /\ Trim(rawData) = rawData))

\* a calculation has been started and waits for its timer
C22_Witness ==
  /\ event = [name |-> "handleCalculate", started |-> TRUE]
  /\ isLoading
  /\ Len(pending) = 1
  /\ pc = "idle"

\* handleCalculate has run on a blank input
C22_BlankWitness ==
  /\ event = [name |-> "handleCalculate", started |-> FALSE]
  /\ inputVal = Spaces(2)
  /\ ~isLoading

\* the number the simulator shows was drawn from the measurement on display
SimFromLastResult ==
  \E newRandomHeight \in RandomHeights :
    simResult = newHeightNumberOf(objects[lastResult.ref].scale, newRandomHeight)

\* C23: whenever lastResult and simResult are both set, simResult is what
\* handlePotionDrink computes from the scale of that lastResult for one of the
\* draws; the callback of a successful calculation leaves potionCount 0,
\* simResult null and the extreme notice empty, whatever they were; and
\* potionCount is 0 exactly when simResult is null.
C23_SimulationOfCurrentResult ==
  /\ []((lastResult # Null /\ simResult # Null) => SimFromLastResult)
  /\ [][(CallbackEnds /\ ~IsFailure(ret)) =>
          /\ lastResult' = [ref |-> Len(objects')]
          /\ potionCount' = 0
          /\ simResult' = Null
          /\ simExtremeNotice' = ""]_vars
  /\ []((potionCount = 0) <=> (simResult = Null))

\* a drink after the second measurement of the session, whose scale is not
\* the scale of the measurement before it
C23_Witness ==
  /\ event.name = "handlePotionDrink" /\ event.accepted
  /\ Len(objects) >= 2
  /\ lastResult = [ref |-> Len(objects)]
  /\ history = <<[ref |-> Len(objects)], [ref |-> Len(objects) - 1]>>
  /\ storage = Stringify(history, objects)
  /\ objects[Len(objects)].scale # objects[Len(objects) - 1].scale
  /\ potionCount = 1
  /\ simResult = newHeightNumberOf(objects[lastResult.ref].scale,
                                   event.newRandomHeight)

\* the number the simulator shows was drawn from the measurement on display
\* with a draw that the notice describes
DrawnExtreme ==
  \E newRandomHeight \in RandomHeights :
    /\ simResult = newHeightNumberOf(objects[lastResult.ref].scale,
                                     newRandomHeight)
    /\ \/ simExtremeNotice = "sim_extreme_tall" /\ FLe(Num196, newRandomHeight)
       \/ simExtremeNotice = "sim_extreme_short"
            /\ FLe(newRandomHeight, FNeg(Num196))

\* C24: a non-empty simExtremeNotice comes with a simResult that is not null
\* and that was drawn with newRandomHeight >= 1.96 for the tall notice or
\* <= -1.96 for the short one, also after the reset button of the simulator.
C24_NoticeDescribesSimResult ==
  simExtremeNotice # "" =>
    /\ simResult # Null
    /\ lastResult # Null => DrawnExtreme

\* C24, as far as the code goes: while a simResult is shown, a notice is the
\* one of its draw
C24_NoticeWhileSimShown ==
  (simExtremeNotice # "" /\ simResult # Null /\ lastResult # Null)
    => DrawnExtreme

\* the reset button of the simulator after an extreme draw: nothing is shown
\* but the notice stays
C24_NoticeAfterReset ==
  /\ simExtremeNotice = "sim_extreme_short"
  /\ simResult = Null
  /\ potionCount = 0
  /\ lastResult # Null

\* C25: the entry countdown starts at 5 with the modal shown; it changes only
\* while the modal is shown and only by going down by one, which is what the
\* callback of the one-second timer does; it stays within 0..5 and reaches 0;
\* the modal changes only by being dismissed, and only when the countdown is
\* 0; once it is dismissed it stays dismissed and the countdown stays as it
\* is.
C25_EntryCountdown ==
  /\ entryCountdown = 5 /\ showEntryModal = TRUE
  /\ [](entryCountdown \in 0..5)
  /\ [][entryCountdown' # entryCountdown =>
          /\ showEntryModal /\ showEntryModal'
          /\ entryCountdown' = entryCountdown - 1
          /\ event'.name = "entry"]_vars
  /\ <>(entryCountdown = 0)
  /\ [][showEntryModal' # showEntryModal =>
          entryCountdown = 0 /\ ~showEntryModal']_vars
  /\ [][~showEntryModal =>
          ~showEntryModal' /\ entryCountdown' = entryCountdown]_vars

\* the modal has been dismissed and the user has gone on to a calculation
C25_Witness ==
  /\ ~showEntryModal
  /\ entryCountdown = 0
  /\ event.name = "handleCalculate"

\* the results the history lists, newest first
HistoryValues == [i \in 1..Len(history) |-> objects[history[i].ref]]

\* what the storage holds once the component has mounted on the item S: S
\* itself when it parses, the empty list otherwise
Restored(S) == IF S \in FreshStores THEN [json |-> <<>>] ELSE S

\* C26: whatever item the storage holds at the start, the load effect runs
\* before anything is written and reads that item; once the effects of the
\* mount have settled, and before the user does anything, a parseable item
\* is again in the storage and its results are the in-memory history, in
\* order; and whenever the effects have settled the storage holds
\* JSON.stringify of the in-memory history, so also after every handler
\* that changes the history.
C26_HistoryRestored ==
  /\ \A S \in Stores :
       (storage = S) =>
         [](/\ effects = "load" => storage = S
            /\ (effects = "done" /\ steps = 0) =>
                 storage = Restored(S) /\ HistoryValues = Restored(S).json)
  /\ [][effects = "load" =>
          /\ effects' = "save"
          /\ storage' = storage
          /\ queued' = IF storage \in FreshStores THEN Null
                        ELSE [list |-> storage.json]]_vars
  /\ [](effects = "done" => storage = Stringify(history, objects))

\* the 20 results of an earlier session are back in the history and in the
\* storage
C26_Witness ==
  /\ effects = "done"
  /\ steps = 0
  /\ Len(history) = HistoryLimit
  /\ HistoryValues = Persisted(HistoryLimit).json
  /\ storage = Persisted(HistoryLimit)

\* a result of this session has been stored on top of the restored ones
C26_LaterWitness ==
  /\ effects = "done"
  /\ event = [name |-> "timeout", ok |-> TRUE]
  /\ Len(history) = HistoryLimit
  /\ storage.json[1] = JsonEntry(objects[Len(objects)])
  /\ storage.json[2] = Persisted(HistoryLimit).json[1]
====
